---- MODULE Spec2Model ----
(***************************************************************************)
(* A model of voyage-core: the NAT table (nat.rs), the parts of the        *)
(* connection manager that drive it (connection.rs), the rule engine       *)
(* (rule.rs) and the proxy manager (proxy.rs).                             *)
(***************************************************************************)
EXTENDS Integers, Sequences, FiniteSets, TLC

VARIABLES
    entries,        \* NatManager.entries: NatKey -> NatEntry
    port_to_key,    \* NatManager.port_to_key: u16 -> NatKey
    next_port,      \* NatManager.next_port
    min_port,       \* NatManager.min_port
    max_port,       \* NatManager.max_port
    max_entries,    \* NatManager.max_entries
    now,            \* the monotonic clock read by Instant::now()
    ret,            \* what the last NatManager call returned
    rules,          \* RuleEngine.rules
    default_action, \* RuleEngine.default_action
    rret,           \* what the last RuleEngine call returned
    config,         \* ProxyManager.config: Option<ProxyConfig>
    enabled,        \* ProxyManager.enabled
    stats,          \* ProxyManager.stats: ProxyStats
    route_calls,    \* evaluate_route calls since the last reset_stats
    pret,           \* what the last ProxyManager call was and returned
    s5_config,      \* the ProxyConfig the SOCKS5 client is made from
    client,         \* what create_socks5_client returned: Ok(Socks5Client) or Err
    target,         \* the TargetAddr handed to Socks5Client::connect
    stream,         \* the TcpStream to the proxy: None, Open, Closed or Returned
    s5_pc,          \* the await at which connect stands
    s5_need,        \* the length of the bound address still to be read
    s5_io,          \* the writes and reads on the stream so far, in order
    s5_result,      \* what connect returned, None while it runs
    socket_handles,         \* ConnectionManager: NAT key -> socket handle
    handle_to_key,          \* ConnectionManager: socket handle -> NAT key
    total_bytes_sent,       \* ConnectionManager: bytes sent over all connections
    total_bytes_received,   \* ConnectionManager: bytes received over all connections
    total_connections,      \* ConnectionManager: connections counted so far
    cret,                   \* what the last ConnectionManager call returned
    core,               \* CORE_INSTANCE: None, or Some of the VoyageCore it holds
    inflight,           \* init_core calls that have built a VoyageCore and not yet set it
    inits_ok,           \* init_core calls that returned Ok(())
    inits_failed,       \* init_core calls that returned an error
    shutdown_logged,    \* shutdown_core has logged its request
    ffi_calls,          \* calls of the embedding API so far
    fret,               \* what the last call of the embedding API returned
    core_mutex,         \* the thread holding the mutex of the instance, "none" when free
    inbound,            \* per thread, where its process_inbound_packet call stands
    linearized,         \* the process_inbound_packet calls that reached get_or_create, in the order they took the mutex
    rx_queue,       \* VirtualTunDevice.rx_queue: the packets injected and not yet received
    tx_queue,       \* VirtualTunDevice.tx_queue: the buffers transmitted and not yet taken
    rx_guard,       \* the thread holding the mutex of rx_queue, "none" when free
    produced,       \* per producer thread, the inject_packet calls it has completed
    received,       \* the packets Device::receive has handed out, in order
    tx_tokens,      \* VirtualTxTokens handed out and not yet consumed
    transmitted,    \* VirtualTxToken::consume calls so far
    dret,           \* what the last VirtualTunDevice call returned
    pkt_data,       \* the bytes handed to ParsedPacket::parse
    pkt_result      \* what ParsedPacket::parse returned, None before the call

natVars == <<entries, port_to_key, next_port, min_port, max_port, max_entries, now, ret>>
ruleVars == <<rules, default_action, rret>>
proxyVars == <<config, enabled, stats, route_calls, pret>>
vars == <<entries, port_to_key, next_port, min_port, max_port, max_entries, now, ret,
          rules, default_action, rret,
          config, enabled, stats, route_calls, pret,
          s5_config, client, target, stream, s5_pc, s5_need, s5_io, s5_result,
          socket_handles, handle_to_key, total_bytes_sent, total_bytes_received,
          total_connections, cret,
          core, inflight, inits_ok, inits_failed, shutdown_logged, ffi_calls, fret,
          core_mutex, inbound, linearized,
          rx_queue, tx_queue, rx_guard, produced, received, tx_tokens, transmitted, dret,
          pkt_data, pkt_result>>
\* what the operations of one component leave alone in the others
socksVars == <<s5_config, client, target, stream, s5_pc, s5_need, s5_io, s5_result>>
connVars == <<socket_handles, handle_to_key, total_bytes_sent, total_bytes_received,
              total_connections, cret>>
ffiVars == <<core, inflight, inits_ok, inits_failed, shutdown_logged, ffi_calls, fret,
             core_mutex, inbound, linearized>>
devVars == <<rx_queue, tx_queue, rx_guard, produced, received, tx_tokens, transmitted, dret>>
parseVars == <<pkt_data, pkt_result>>
nonNatVars == <<ruleVars, proxyVars, socksVars, connVars, ffiVars, devVars, parseVars>>
nonRuleVars == <<natVars, proxyVars, socksVars, connVars, ffiVars, devVars, parseVars>>
nonProxyVars == <<rret, natVars, socksVars, connVars, ffiVars, devVars, parseVars>>
nonSocksVars == <<natVars, ruleVars, proxyVars, connVars, ffiVars, devVars, parseVars>>
nonConnVars == <<ruleVars, proxyVars, socksVars, ffiVars, devVars, parseVars>>
nonDevVars == <<natVars, ruleVars, proxyVars, socksVars, connVars, ffiVars, parseVars>>
nonParseVars == <<natVars, ruleVars, proxyVars, socksVars, connVars, ffiVars, devVars>>

(***************************************************************************)
(* Bounds of the model.                                                    *)
(***************************************************************************)
\* with_config is explored with port ranges of at most MaxPortSpan + 1 ports,
\* process_packet until it has allocated MaxPortSpan + 1 ports
MaxPortSpan == 1
\* load_from_config is explored while the rule list has at most MaxRules rules
MaxRules == 3
\* evaluate_route is explored for at most MaxRouteCalls calls between resets
MaxRouteCalls == 2
\* byte accounting is explored until the table's byte totals reach MaxBytes
MaxBytes == 1
\* process_packet is explored until total_connections reaches MaxConnections
MaxConnections == 2
\* the embedding API is explored for MaxFfiCalls calls
MaxFfiCalls == 4
\* inject_packet calls of one producer thread, and VirtualTxToken::consume calls
MaxInjects == 2
\* ParsedPacket::parse is explored on buffers of at most MaxPacketLen bytes
MaxPacketLen == 60

\* with_config is explored with these values of max_entries
EntryLimits == {1, 2}

(***************************************************************************)
(* Program constants.                                                      *)
(***************************************************************************)
U16Max == 65535
TcpTimeoutSecs == 300
UdpTimeoutSecs == 60
ProtoTcp == 6
ProtoUdp == 17

\* The instants (in seconds) at which the clock is sampled: an idle time of
\* exactly the UDP timeout, and idle times on both sides of the TCP timeout
\* (TcpTimeoutSecs + 1 and TcpTimeoutSecs + 1 - UdpTimeoutSecs).
Instants == {0, UdpTimeoutSecs, TcpTimeoutSecs + 1}

\* NatKey::tcp / NatKey::udp
NatKeyTcp(src, dst) ==
    [src_ip |-> src[1], src_port |-> src[2], dst_ip |-> dst[1], dst_port |-> dst[2],
     protocol |-> ProtoTcp]

NatKeyUdp(src, dst) ==
    [src_ip |-> src[1], src_port |-> src[2], dst_ip |-> dst[1], dst_port |-> dst[2],
     protocol |-> ProtoUdp]

\* The flows of the model: a TCP flow and a UDP flow from 10.0.0.1 to 8.8.8.8.
Keys ==
    { NatKeyTcp(<<"10.0.0.1", 12345>>, <<"8.8.8.8", 443>>),
      NatKeyUdp(<<"10.0.0.1", 8000>>, <<"8.8.8.8", 53>>) }

\* NatKey::src_addr / dst_addr
KeySrcAddr(key) == <<key.src_ip, key.src_port>>

KeyDstAddr(key) == <<key.dst_ip, key.dst_port>>

\* NatKey::is_tcp
IsTcp(key) == key.protocol = ProtoTcp

NatStates == {"SynSent", "Established", "FinWait", "Closing", "Closed"}

\* NatEntry::new
NewEntry(src, dst, local_port, t) ==
    [src_addr |-> src, dst_addr |-> dst, local_port |-> local_port, state |-> "SynSent",
     last_seen |-> t, bytes_sent |-> 0, bytes_received |-> 0]

\* A touch that forgets to read the clock.
TouchStale(e, t) == e

\* NatEntry::touch
Touch(e, t) == [e EXCEPT !.last_seen = t]

\* An expiry test that also expires an entry idle for exactly the timeout.
IsExpiredAtTimeout(e, timeout, t) == t - e.last_seen >= timeout

\* NatEntry::is_expired
IsExpired(e, timeout, t) == t - e.last_seen > timeout

\* NatEntry::establish / start_close / close
EntryEstablish(e, t) == Touch([e EXCEPT !.state = "Established"], t)

EntryStartClose(e, t) == Touch([e EXCEPT !.state = "FinWait"], t)

EntryClose(e, t) == Touch([e EXCEPT !.state = "Closed"], t)

\* A finite map without the key k.
Without(f, k) == [x \in DOMAIN f \ {k} |-> f[x]]

\* A finite map with k bound to v (HashMap::insert).
With(f, k, v) == [x \in DOMAIN f \cup {k} |-> IF x = k THEN v ELSE f[x]]

EmptyMap == [x \in {} |-> 0]

\* The NatManager as one value.
NatMgr == [entries |-> entries, port_to_key |-> port_to_key, next_port |-> next_port]

\* A probe that takes the cursor's port without looking it up.
PortFreeUnchecked(ptk, port) == TRUE

\* The probe of allocate_port: is the port free?
PortFree(ptk, port) == port \notin DOMAIN ptk

\* A cursor step that wraps one port too late.
AdvanceCursorPastMax(cursor) == IF cursor > max_port THEN min_port ELSE cursor + 1

\* A cursor step that never wraps around.
AdvanceCursorNoWrap(cursor) == cursor + 1

\* The cursor step of allocate_port.
AdvanceCursor(cursor) == IF cursor >= max_port THEN min_port ELSE cursor + 1

\* A loop that, when it gives up, leaves the cursor one past its start.
RECURSIVE AllocLoopCursorMoved(_, _, _)
AllocLoopCursorMoved(cursor, start, ptk) ==
    LET port == cursor
        nxt == AdvanceCursor(cursor)
    IN  IF PortFree(ptk, port) THEN [ok |-> TRUE, port |-> port, next_port |-> nxt]
        ELSE IF nxt = start THEN [ok |-> FALSE, port |-> 0, next_port |-> AdvanceCursor(nxt)]
        ELSE AllocLoopCursorMoved(nxt, start, ptk)

\* The loop of NatManager::allocate_port, from the cursor value `cursor`,
\* with start_port = start: the chosen port or NatTableFull, and the cursor.
RECURSIVE AllocLoop(_, _, _)
AllocLoop(cursor, start, ptk) ==
    LET port == cursor
        nxt == AdvanceCursor(cursor)
    IN  IF PortFree(ptk, port) THEN [ok |-> TRUE, port |-> port, next_port |-> nxt]
        ELSE IF nxt = start THEN [ok |-> FALSE, port |-> 0, next_port |-> nxt]
        ELSE AllocLoop(nxt, start, ptk)

\* An allocation that starts its probe at min_port instead of at the cursor.
AllocatePortFromMin(nat) == AllocLoop(min_port, min_port, nat.port_to_key)

\* The number of times the loop of allocate_port reads the reverse index,
\* from the cursor value `cursor` with start_port = start, counted from n;
\* the count stops one past the size of the range.
RECURSIVE ProbeCount(_, _, _, _)
ProbeCount(cursor, start, ptk, n) ==
    LET nxt == AdvanceCursor(cursor)
    IN  IF PortFree(ptk, cursor) \/ nxt = start \/ n > max_port - min_port + 1
        THEN n
        ELSE ProbeCount(nxt, start, ptk, n + 1)

\* NatManager::allocate_port
AllocatePort(nat) == AllocLoop(nat.next_port, nat.next_port, nat.port_to_key)

\* A remove that leaves the reverse index behind.
NatRemoveForwardOnly(nat, key) ==
    IF key \in DOMAIN nat.entries
    THEN [nat EXCEPT !.entries = Without(nat.entries, key)]
    ELSE nat

\* NatManager::remove
NatRemove(nat, key) ==
    IF key \in DOMAIN nat.entries
    THEN [nat EXCEPT !.entries = Without(nat.entries, key),
                     !.port_to_key = Without(nat.port_to_key, nat.entries[key].local_port)]
    ELSE nat

\* The filter of cleanup_expired.
ExpiredKeys(nat, t) ==
    { k \in DOMAIN nat.entries :
        LET timeout == IF IsTcp(k) THEN TcpTimeoutSecs ELSE UdpTimeoutSecs
        IN  IsExpired(nat.entries[k], timeout, t) \/ nat.entries[k].state = "Closed" }

\* The removal loop of cleanup_expired.
RECURSIVE RemoveAll(_, _)
RemoveAll(nat, keys) ==
    IF keys = {} THEN nat
    ELSE LET k == CHOOSE x \in keys : TRUE
         IN  RemoveAll(NatRemove(nat, k), keys \ {k})

\* NatManager::cleanup_expired
NatCleanupExpired(nat, t) == RemoveAll(nat, ExpiredKeys(nat, t))

\* A capacity test that is off by one.
TableFullOffByOne(n) == n > max_entries

\* The capacity test of get_or_create.
TableFull(n) == n >= max_entries

RetUnit == [tag |-> "Unit"]
\* The () of a named operation, where a step has to be told apart from the
\* other calls that return ().
RetUnitOf(op) == [tag |-> "Unit", op |-> op]
RetOk(port) == [tag |-> "Ok", local_port |-> port]
RetFull == [tag |-> "Err", error |-> "NatTableFull"]
\* The bool of establish and the Option<NatEntry> of remove.
RetBool(b) == [tag |-> "Bool", value |-> b]
RetOption(o) == [tag |-> "Option", value |-> o]

\* A lookup that allocates a port before it finds the key present.
GetExistingAllocFirst(nat, key) ==
    [nat |-> [nat EXCEPT !.next_port = AllocatePort(nat).next_port],
     ret |-> RetOk(nat.entries[key].local_port)]

\* The first branch of get_or_create: the key is present.
GetExisting(nat, key) == [nat |-> nat, ret |-> RetOk(nat.entries[key].local_port)]

\* get_or_create after it has found the key absent: the table afterwards and
\* the result.
NatCreate(nat, key, t) ==
    LET full == TableFull(Cardinality(DOMAIN nat.entries))
        n1 == IF full THEN NatCleanupExpired(nat, t) ELSE nat
    IN  IF full /\ TableFull(Cardinality(DOMAIN n1.entries))
        THEN [nat |-> n1, ret |-> RetFull]
        ELSE LET a == AllocatePort(n1)
                 n2 == [n1 EXCEPT !.next_port = a.next_port]
             IN  IF ~a.ok
                 THEN [nat |-> n2, ret |-> RetFull]
                 ELSE [nat |-> [n2 EXCEPT
                                  !.port_to_key = With(n2.port_to_key, a.port, key),
                                  !.entries = With(n2.entries, key,
                                      NewEntry(KeySrcAddr(key), KeyDstAddr(key),
                                               a.port, t))],
                       ret |-> RetOk(a.port)]

\* NatManager::get_or_create: the table afterwards and the result.
NatGetOrCreate(nat, key, t) ==
    IF key \in DOMAIN nat.entries
    THEN GetExisting(nat, key)
    ELSE NatCreate(nat, key, t)

\* An establish that creates the entry it does not find.
NatEstablishOrInsert(nat, key, t) ==
    [nat EXCEPT !.entries =
        With(nat.entries, key,
             EntryEstablish(IF key \in DOMAIN nat.entries THEN nat.entries[key]
                            ELSE NewEntry(KeySrcAddr(key), KeyDstAddr(key), nat.next_port, t),
                            t))]

\* NatManager::establish
NatEstablish(nat, key, t) ==
    IF key \in DOMAIN nat.entries
    THEN [nat EXCEPT !.entries[key] = EntryEstablish(@, t)]
    ELSE nat

\* NatManager::add_bytes_sent
NatAddBytesSent(nat, key, bytes, t) ==
    IF key \in DOMAIN nat.entries
    THEN [nat EXCEPT !.entries[key] = Touch([@ EXCEPT !.bytes_sent = @ + bytes], t)]
    ELSE nat

\* NatManager::add_bytes_received
NatAddBytesReceived(nat, key, bytes, t) ==
    IF key \in DOMAIN nat.entries
    THEN [nat EXCEPT !.entries[key] = Touch([@ EXCEPT !.bytes_received = @ + bytes], t)]
    ELSE nat

\* get_mut(key) followed by NatEntry::start_close
NatStartClose(nat, key, t) ==
    IF key \in DOMAIN nat.entries
    THEN [nat EXCEPT !.entries[key] = EntryStartClose(@, t)]
    ELSE nat

\* ConnectionManager::close_connection: get_mut(key) followed by NatEntry::close
NatClose(nat, key, t) ==
    IF key \in DOMAIN nat.entries
    THEN [nat EXCEPT !.entries[key] = EntryClose(@, t)]
    ELSE nat

\* The sum of a counter over the live entries.
RECURSIVE SumOver(_, _, _)
SumOver(es, keys, field) ==
    IF keys = {} THEN 0
    ELSE LET k == CHOOSE x \in keys : TRUE
         IN  es[k][field] + SumOver(es, keys \ {k}, field)

\* NatManager::total_bytes_sent / total_bytes_received
NatTotalBytesSent(nat) == SumOver(nat.entries, DOMAIN nat.entries, "bytes_sent")

NatTotalBytesReceived(nat) == SumOver(nat.entries, DOMAIN nat.entries, "bytes_received")

SetNat(nat) ==
    /\ entries' = nat.entries
    /\ port_to_key' = nat.port_to_key
    /\ next_port' = nat.next_port
    /\ UNCHANGED <<min_port, max_port, max_entries, now>>
    /\ UNCHANGED nonNatVars

(***************************************************************************)
(* Strings (str / String), as the rule parser and the matchers use them.   *)
(***************************************************************************)
CharAt(s, i) == SubSeq(s, i, i)

LowerAlpha == "abcdefghijklmnopqrstuvwxyz"

UpperAlpha == "ABCDEFGHIJKLMNOPQRSTUVWXYZ"

DigitChars == "0123456789"

\* char -> its ASCII upper-case / lower-case letter, for the letters.
UpperOf == [c \in {CharAt(LowerAlpha, i) : i \in 1 .. 26} |->
               CharAt(UpperAlpha, CHOOSE i \in 1 .. 26 : CharAt(LowerAlpha, i) = c)]

LowerOf == [c \in {CharAt(UpperAlpha, i) : i \in 1 .. 26} |->
               CharAt(LowerAlpha, CHOOSE i \in 1 .. 26 : CharAt(UpperAlpha, i) = c)]

\* char -> its value, for the decimal digits (char::to_digit(10)).
DigitOf == [c \in {CharAt(DigitChars, i) : i \in 1 .. 10} |->
               (CHOOSE i \in 1 .. 10 : CharAt(DigitChars, i) = c) - 1]

IsDigit(c) == c \in DOMAIN DigitOf

\* The white space str::trim strips.
IsWhitespace(c) == c \in {" ", "\t", "\n", "\r", "\f"}

\* str::to_uppercase / to_ascii_lowercase (on ASCII text)
RECURSIVE ToUpper(_)
ToUpper(s) ==
    IF s = "" THEN ""
    ELSE (IF Head(s) \in DOMAIN UpperOf THEN UpperOf[Head(s)] ELSE Head(s)) \o ToUpper(Tail(s))

RECURSIVE ToLower(_)
ToLower(s) ==
    IF s = "" THEN ""
    ELSE (IF Head(s) \in DOMAIN LowerOf THEN LowerOf[Head(s)] ELSE Head(s)) \o ToLower(Tail(s))

\* str::trim
RECURSIVE TrimStart(_)
TrimStart(s) == IF s # "" /\ IsWhitespace(Head(s)) THEN TrimStart(Tail(s)) ELSE s

RECURSIVE TrimEnd(_)
TrimEnd(s) ==
    IF s # "" /\ IsWhitespace(CharAt(s, Len(s))) THEN TrimEnd(SubSeq(s, 1, Len(s) - 1)) ELSE s

Trim(s) == TrimEnd(TrimStart(s))

\* str::trim_start_matches(c)
RECURSIVE TrimStartMatches(_, _)
TrimStartMatches(s, c) == IF s # "" /\ Head(s) = c THEN TrimStartMatches(Tail(s), c) ELSE s

\* str::starts_with / ends_with / contains
StartsWith(s, p) == Len(s) >= Len(p) /\ SubSeq(s, 1, Len(p)) = p

EndsWith(s, p) == Len(s) >= Len(p) /\ SubSeq(s, Len(s) - Len(p) + 1, Len(s)) = p

Contains(s, p) == \E i \in 0 .. (Len(s) - Len(p)) : SubSeq(s, i + 1, i + Len(p)) = p

\* str::eq_ignore_ascii_case
EqIgnoreAsciiCase(a, b) == ToLower(a) = ToLower(b)

\* str::split(sep): the pieces between the separators, empty pieces kept.
RECURSIVE SplitFrom(_, _, _, _)
SplitFrom(s, sep, i, start) ==
    IF i > Len(s) THEN <<SubSeq(s, start, Len(s))>>
    ELSE IF CharAt(s, i) = sep
         THEN <<SubSeq(s, start, i - 1)>> \o SplitFrom(s, sep, i + 1, i + 1)
         ELSE SplitFrom(s, sep, i + 1, start)

Split(s, sep) == SplitFrom(s, sep, 1, 1)

\* str::lines: split at "\n", no last empty line, a trailing "\r" stripped.
Lines(s) ==
    LET pieces == Split(s, "\n")
        kept == IF pieces[Len(pieces)] = "" THEN SubSeq(pieces, 1, Len(pieces) - 1) ELSE pieces
    IN  [i \in 1 .. Len(kept) |->
            IF EndsWith(kept[i], "\r") THEN SubSeq(kept[i], 1, Len(kept[i]) - 1) ELSE kept[i]]

Ok(v) == [ok |-> TRUE, v |-> v]

Err(msg) == [ok |-> FALSE, err |-> msg]

\* The digit loop of <u8 / u16 as FromStr>::from_str: the value, or the error
\* of the first character that is no digit or overflows the type.
RECURSIVE ParseDigits(_, _, _)
ParseDigits(s, acc, max) ==
    IF s = "" THEN Ok(acc)
    ELSE IF ~IsDigit(Head(s)) THEN Err("invalid digit found in string")
    ELSE IF acc * 10 + DigitOf[Head(s)] > max
         THEN Err("number too large to fit in target type")
         ELSE ParseDigits(Tail(s), acc * 10 + DigitOf[Head(s)], max)

\* str::parse::<u8>() / str::parse::<u16>()
ParseUnsigned(s, max) ==
    IF s = "" THEN Err("cannot parse integer from empty string")
    ELSE IF s = "+" \/ s = "-" THEN Err("invalid digit found in string")
    ELSE IF Head(s) = "+" THEN ParseDigits(Tail(s), 0, max)
    ELSE ParseDigits(s, 0, max)

U8Max == 255

\* One octet of Ipv4Addr::from_str: 1 to 3 digits, no leading zero, <= 255.
ParseOctet(s) ==
    /\ Len(s) \in 1 .. 3
    /\ \A i \in 1 .. Len(s) : IsDigit(CharAt(s, i))
    /\ Len(s) > 1 => Head(s) # "0"
    /\ ParseDigits(s, 0, U8Max).ok

\* Ipv4Addr::from_str: the four octets.
ParseIpv4(s) ==
    LET parts == Split(s, ".")
    IN  IF Len(parts) = 4 /\ \A i \in 1 .. 4 : ParseOctet(parts[i])
        THEN Ok([i \in 1 .. 4 |-> ParseDigits(parts[i], 0, U8Max).v])
        ELSE Err("invalid IPv4 address syntax")

(***************************************************************************)
(* u32 arithmetic on two 16-bit halves <<hi, lo>>.                         *)
(***************************************************************************)
Two16 == 65536

RECURSIVE Pow2(_)
Pow2(n) == IF n = 0 THEN 1 ELSE 2 * Pow2(n - 1)

RECURSIVE BitAnd(_, _, _)
BitAnd(a, b, bits) ==
    IF bits = 0 THEN 0
    ELSE (a % 2) * (b % 2) + 2 * BitAnd(a \div 2, b \div 2, bits - 1)

\* u32::from(Ipv4Addr)
U32FromIpv4(addr) == <<addr[1] * 256 + addr[2], addr[3] * 256 + addr[4]>>

\* !0u32
U32AllOnes == <<Two16 - 1, Two16 - 1>>

\* x << n on u32, for n in 0 .. 31
U32Shl(x, n) ==
    IF n < 16
    THEN <<((x[1] * Pow2(n)) % Two16) + (x[2] \div Pow2(16 - n)),
           (x[2] * Pow2(n)) % Two16>>
    ELSE <<(x[2] * Pow2(n - 16)) % Two16, 0>>

\* x & y on u32
U32And(x, y) == <<BitAnd(x[1], y[1], 16), BitAnd(x[2], y[2], 16)>>

(***************************************************************************)
(* The rule engine (rule.rs).                                              *)
(***************************************************************************)
RouteActions == {"Direct", "Proxy", "Reject"}

None == [some |-> FALSE]

Some(v) == [some |-> TRUE, v |-> v]

\* Rule::new
NewRule(rule_type, action) == [rule_type |-> rule_type, action |-> action, name |-> None]

IpV4(a, b, c, d) == [tag |-> "V4", addr |-> <<a, b, c, d>>]

IpV6 == [tag |-> "V6"]

\* An ip_in_cidr whose mask is shifted by the prefix length itself.
IpInCidrShiftPrefix(addr, network, prefix_len) ==
    IF prefix_len = 0 THEN TRUE
    ELSE IF prefix_len > 32 THEN FALSE
    ELSE LET mask == U32Shl(U32AllOnes, prefix_len)
         IN  U32And(U32FromIpv4(addr), mask) = U32And(U32FromIpv4(network), mask)

\* ip_in_cidr
IpInCidr(addr, network, prefix_len) ==
    IF prefix_len = 0 THEN TRUE
    ELSE IF prefix_len > 32 THEN FALSE
    ELSE LET addr_bits == U32FromIpv4(addr)
             network_bits == U32FromIpv4(network)
             mask == U32Shl(U32AllOnes, 32 - prefix_len)
         IN  U32And(addr_bits, mask) = U32And(network_bits, mask)

\* Rule::matches
RuleMatchesRaw(rule, domain, ip, dst_port, src_port) ==
    LET t == rule.rule_type
    IN  CASE t.tag = "Domain" -> domain.some /\ EqIgnoreAsciiCase(domain.v, t.value)
          [] t.tag = "DomainSuffix" ->
                domain.some /\
                LET h_lower == ToLower(domain.v)
                    suffix_lower == ToLower(t.value)
                IN  \/ EndsWith(h_lower, suffix_lower)
                    \/ h_lower = TrimStartMatches(suffix_lower, ".")
          [] t.tag = "DomainKeyword" ->
                domain.some /\ Contains(ToLower(domain.v), ToLower(t.value))
          [] t.tag = "IpCidr" ->
                IF ip.some /\ ip.v.tag = "V4"
                THEN IpInCidr(ip.v.addr, t.network, t.prefix_len)
                ELSE FALSE
          [] t.tag = "DstPort" -> dst_port = t.port
          [] t.tag = "SrcPort" -> src_port = t.port
          [] t.tag = "Final" -> TRUE

\* RuleEngine::parse_action
ParseAction(s) ==
    LET u == ToUpper(s)
    IN  IF u = "DIRECT" THEN Ok("Direct")
        ELSE IF u = "PROXY" THEN Ok("Proxy")
        ELSE IF u = "REJECT" THEN Ok("Reject")
        ELSE Err("Unknown action: " \o s)

U16MaxValue == 65535

\* The IP-CIDR arm of parse_rule_line.
ParseCidr(text) ==
    LET cidr_parts == Split(text, "/")
    IN  IF Len(cidr_parts) # 2 THEN Err("Invalid CIDR format: " \o text)
        ELSE LET ip == ParseIpv4(cidr_parts[1])
                 prefix == ParseUnsigned(cidr_parts[2], U8Max)
             IN  IF ~ip.ok THEN Err("Invalid IP: " \o ip.err)
                 ELSE IF ~prefix.ok THEN Err("Invalid prefix length: " \o prefix.err)
                 ELSE Ok([tag |-> "IpCidr", network |-> ip.v, prefix_len |-> prefix.v])

\* The DST-PORT / SRC-PORT arms of parse_rule_line.
ParsePortRule(tag, text) ==
    LET port == ParseUnsigned(text, U16MaxValue)
    IN  IF ~port.ok THEN Err("Invalid port: " \o port.err)
        ELSE Ok([tag |-> tag, port |-> port.v])

\* The match on the rule type of parse_rule_line.
ParseRuleType(rule_type_str, parts) ==
    CASE rule_type_str = "DOMAIN" ->
            IF Len(parts) < 3 THEN Err("DOMAIN rule requires a domain")
            ELSE Ok([tag |-> "Domain", value |-> parts[2]])
      [] rule_type_str = "DOMAIN-SUFFIX" ->
            IF Len(parts) < 3 THEN Err("DOMAIN-SUFFIX rule requires a suffix")
            ELSE Ok([tag |-> "DomainSuffix", value |-> parts[2]])
      [] rule_type_str = "DOMAIN-KEYWORD" ->
            IF Len(parts) < 3 THEN Err("DOMAIN-KEYWORD rule requires a keyword")
            ELSE Ok([tag |-> "DomainKeyword", value |-> parts[2]])
      [] rule_type_str \in {"IP-CIDR", "IP-CIDR6"} ->
            IF Len(parts) < 3 THEN Err("IP-CIDR rule requires a CIDR")
            ELSE ParseCidr(parts[2])
      [] rule_type_str = "DST-PORT" ->
            IF Len(parts) < 3 THEN Err("DST-PORT rule requires a port")
            ELSE ParsePortRule("DstPort", parts[2])
      [] rule_type_str = "SRC-PORT" ->
            IF Len(parts) < 3 THEN Err("SRC-PORT rule requires a port")
            ELSE ParsePortRule("SrcPort", parts[2])
      [] rule_type_str = "FINAL" -> Ok([tag |-> "Final"])
      [] OTHER -> Err("Unknown rule type: " \o rule_type_str)

\* RuleEngine::parse_rule_line
ParseRuleLineRaw(line) ==
    LET raw == Split(line, ",")
        parts == [i \in 1 .. Len(raw) |-> Trim(raw[i])]
    IN  IF Len(parts) < 2 THEN Err("Invalid rule format: " \o line)
        ELSE LET rule_type_str == ToUpper(parts[1])
                 action == ParseAction(parts[Len(parts)])
             IN  IF ~action.ok THEN action
                 ELSE LET rule_type == ParseRuleType(rule_type_str, parts)
                      IN  IF ~rule_type.ok THEN rule_type
                          ELSE Ok(NewRule(rule_type.v, action.v))

\* The lines load_from_config hands to parse_rule_line: trimmed, without
\* the empty lines and the comments.
ConfigLinesRaw(text) ==
    LET trimmed == [i \in 1 .. Len(Lines(text)) |-> Trim(Lines(text)[i])]
    IN  SelectSeq(trimmed, LAMBDA l : ~(l = "" \/ StartsWith(l, "#") \/ StartsWith(l, "//")))

\* The configuration texts handed to load_from_config.
ConfigTexts ==
    { "",
      "# note\nDOMAIN, a.io, REJECT\n",
      "DOMAIN-SUFFIX,.a.io,PROXY\n\nfinal,direct",
      "IP-CIDR,10.0.0.0/8,DIRECT",
      "DOMAIN-KEYWORD,A,DIRECT\r\n// c\nSRC-PORT,8080,REJECT",
      "DST-PORT,443,PROXY",
      "FINAL,REJECT\nUNKNOWN,foo,DIRECT\nDST-PORT,443,PROXY",
      "DOMAIN" }

\* The connections handed to evaluate: (domain?, ip?, dst_port, src_port).
Conn(domain, ip, dst_port, src_port) ==
    [domain |-> domain, ip |-> ip, dst_port |-> dst_port, src_port |-> src_port]

Inputs ==
    { Conn(Some("a.io"), None, 443, 0),
      Conn(Some("X.A.IO"), Some(IpV4(10, 1, 2, 3)), 443, 8080),
      Conn(None, Some(IpV4(10, 1, 2, 3)), 80, 0),
      Conn(None, Some(IpV4(11, 0, 0, 1)), 443, 0),
      Conn(None, Some(IpV6), 80, 8080),
      Conn(Some("b.org"), None, 80, 0) }

\* The values of the parser and of the matcher on the texts, lines, rules
\* and connections above, computed once: sets of <<argument, value>> pairs.
MemoAt(memo, k) == (CHOOSE p \in memo : p[1] = k)[2]

ConfigLinesMemo == { <<c, ConfigLinesRaw(c)>> : c \in ConfigTexts }

KnownLines == UNION { { p[2][i] : i \in 1 .. Len(p[2]) } : p \in ConfigLinesMemo }

ParseMemo == { <<l, ParseRuleLineRaw(l)>> : l \in KnownLines }

KnownRules == { p[2].v : p \in { q \in ParseMemo : q[2].ok } }

\* the <<rule, connection>> pairs that match
MatchMemo ==
    { p \in KnownRules \X Inputs :
        RuleMatchesRaw(p[1], p[2].domain, p[2].ip, p[2].dst_port, p[2].src_port) }

ConfigLines(text) ==
    IF text \in ConfigTexts THEN MemoAt(ConfigLinesMemo, text) ELSE ConfigLinesRaw(text)

ParseRuleLine(line) ==
    IF line \in KnownLines THEN MemoAt(ParseMemo, line) ELSE ParseRuleLineRaw(line)

RuleMatches(rule, domain, ip, dst_port, src_port) ==
    IF rule \in KnownRules /\ Conn(domain, ip, dst_port, src_port) \in Inputs
    THEN <<rule, Conn(domain, ip, dst_port, src_port)>> \in MatchMemo
    ELSE RuleMatchesRaw(rule, domain, ip, dst_port, src_port)

\* An evaluation in which the last matching rule decides.
EvalLoopLastWins(rs, i, default, domain, ip, dst_port, src_port) ==
    LET hits == { j \in i .. Len(rs) : RuleMatches(rs[j], domain, ip, dst_port, src_port) }
    IN  IF hits = {} THEN default
        ELSE rs[CHOOSE j \in hits : \A k \in hits : k <= j].action

\* The loop of RuleEngine::evaluate, from rule i on.
RECURSIVE EvalLoop(_, _, _, _, _, _, _)
EvalLoop(rs, i, default, domain, ip, dst_port, src_port) ==
    IF i > Len(rs) THEN default
    ELSE IF RuleMatches(rs[i], domain, ip, dst_port, src_port) THEN rs[i].action
    ELSE EvalLoop(rs, i + 1, default, domain, ip, dst_port, src_port)

\* RuleEngine::evaluate
RuleEvaluate(rs, default, domain, ip, dst_port, src_port) ==
    EvalLoop(rs, 1, default, domain, ip, dst_port, src_port)

\* An add_rule that puts the rule in front.
RuleAddRuleFront(rs, rule) == <<rule>> \o rs

\* RuleEngine::add_rule
RuleAddRule(rs, rule) == Append(rs, rule)

\* The loop of load_from_config over the lines, from line i on: the rule
\* list afterwards and Ok(count) or the parse error.
RECURSIVE LoadLoop(_, _, _, _)
LoadLoop(lines, i, rs, count) ==
    IF i > Len(lines) THEN [rules |-> rs, result |-> Ok(count)]
    ELSE LET parsed == ParseRuleLine(lines[i])
         IN  IF ~parsed.ok THEN [rules |-> rs, result |-> parsed]
             ELSE LoadLoop(lines, i + 1, RuleAddRule(rs, parsed.v), count + 1)

\* RuleEngine::load_from_config
RuleLoadFromConfig(rs, text) == LoadLoop(ConfigLines(text), 1, rs, 0)

(***************************************************************************)
(* The proxy manager (proxy.rs, config.rs).                                *)
(***************************************************************************)
\* ProxyConfig::new
ProxyConfigNew(host, port) ==
    [server_host |-> host, server_port |-> port, username |-> None, password |-> None]

\* ProxyConfig::with_auth
WithAuth(c, username, password) ==
    [c EXCEPT !.username = Some(username), !.password = Some(password)]

\* The configurations handed to with_config and set_config.
ProxyConfigs ==
    { ProxyConfigNew("127.0.0.1", 1080),
      WithAuth(ProxyConfigNew("proxy.example.com", 8080), "user", "pass") }

\* ProxyStats::default
ProxyStatsDefault ==
    [direct_connections |-> 0, proxied_connections |-> 0, rejected_connections |-> 0,
     proxy_bytes_sent |-> 0, proxy_bytes_received |-> 0]

\* The ProxyManager held in the variables.
ProxyMgr ==
    [config |-> config,
     rule_engine |-> [rules |-> rules, default_action |-> default_action],
     stats |-> stats,
     enabled |-> enabled]

\* ProxyManager::new
ProxyNew ==
    [config |-> None,
     rule_engine |-> [rules |-> <<>>, default_action |-> "Direct"],
     stats |-> ProxyStatsDefault,
     enabled |-> FALSE]

\* ProxyManager::with_config
ProxyWithConfig(c) ==
    [config |-> Some(c),
     rule_engine |-> [rules |-> <<>>, default_action |-> "Direct"],
     stats |-> ProxyStatsDefault,
     enabled |-> TRUE]

\* ProxyManager::set_config
ProxySetConfig(pm, c) == [pm EXCEPT !.config = Some(c)]

\* ProxyManager::enable
ProxyEnable(pm) == [pm EXCEPT !.enabled = TRUE]

\* A disable that also throws the statistics away.
ProxyDisableDropStats(pm) == [pm EXCEPT !.enabled = FALSE, !.stats = ProxyStatsDefault]

\* ProxyManager::disable
ProxyDisable(pm) == [pm EXCEPT !.enabled = FALSE]

\* An is_enabled that looks at the flag only.
ProxyIsEnabledFlagOnly(pm) == pm.enabled

\* ProxyManager::is_enabled
ProxyIsEnabled(pm) == pm.enabled /\ pm.config.some

\* load_rules once the rule engine has returned r: the engine's rules go into
\* the manager and a parse error becomes a ConfigError.
ProxyLoaded(pm, r) ==
    [pm |-> [pm EXCEPT !.rule_engine.rules = r.rules],
     result |-> IF r.result.ok THEN r.result
                ELSE Err([tag |-> "ConfigError", msg |-> r.result.err])]

\* ProxyManager::load_rules: the manager afterwards and Ok(count) or
\* Err(ConfigError(message)).
ProxyLoadRules(pm, text) ==
    ProxyLoaded(pm, RuleLoadFromConfig(pm.rule_engine.rules, text))

\* ProxyManager::clear_rules
ProxyClearRules(pm) == [pm EXCEPT !.rule_engine.rules = <<>>]

\* ProxyManager::rule_count
ProxyRuleCount(pm) == Len(pm.rule_engine.rules)

\* A statistics update that books every decision as direct.
StatsCountAllDirect(st, action) ==
    [st EXCEPT !.direct_connections = @ + 1]

\* The statistics update of evaluate_route (match &action).
StatsCount(st, action) ==
    CASE action = "Direct" -> [st EXCEPT !.direct_connections = @ + 1]
      [] action = "Proxy" -> [st EXCEPT !.proxied_connections = @ + 1]
      [] action = "Reject" -> [st EXCEPT !.rejected_connections = @ + 1]

\* ProxyManager::evaluate_route: the manager afterwards and the decision.
ProxyEvaluateRoute(pm, x) ==
    LET action == IF ProxyIsEnabled(pm)
                  THEN RuleEvaluate(pm.rule_engine.rules, pm.rule_engine.default_action,
                                    x.domain, x.ip, x.dst_port, x.src_port)
                  ELSE "Direct"
    IN  [pm |-> [pm EXCEPT !.stats = StatsCount(@, action)],
         decision |-> [action |-> action, domain |-> x.domain, dst_ip |-> x.ip,
                       dst_port |-> x.dst_port, matched_rule |-> None]]

\* ProxyManager::add_proxy_bytes_sent / add_proxy_bytes_received
ProxyAddBytesSent(pm, bytes) == [pm EXCEPT !.stats.proxy_bytes_sent = @ + bytes]

ProxyAddBytesReceived(pm, bytes) == [pm EXCEPT !.stats.proxy_bytes_received = @ + bytes]

\* ProxyManager::reset_stats
ProxyResetStats(pm) == [pm EXCEPT !.stats = ProxyStatsDefault]

\* ProxyManager::get_credentials
ProxyGetCredentials(pm) ==
    IF pm.config.some /\ pm.config.v.username.some /\ pm.config.v.password.some
    THEN Some(<<pm.config.v.username.v, pm.config.v.password.v>>)
    ELSE None

\* The manager goes back into the variables.
SetProxy(pm) ==
    /\ config' = pm.config
    /\ rules' = pm.rule_engine.rules
    /\ default_action' = pm.rule_engine.default_action
    /\ stats' = pm.stats
    /\ enabled' = pm.enabled

\* The proxy manager while another component is explored: ProxyManager::new
InitProxyIdle ==
    /\ config = ProxyNew.config
    /\ enabled = ProxyNew.enabled
    /\ stats = ProxyNew.stats
    /\ route_calls = 0
    /\ pret = [op |-> "new"]

(***************************************************************************)
(* The SOCKS5 client (socks5.rs).  Bytes are numbers 0 .. 255; the bytes   *)
(* of a string stand in a message as the string itself.                    *)
(***************************************************************************)
SOCKS5_VERSION == 5

\* AuthMethod as u8
NoAuth == 0
UsernamePassword == 2
NoAcceptable == 255

\* Command::Connect as u8
CmdConnect == 1

\* AddressType as u8
AtypIPv4 == 1
AtypDomainName == 3
AtypIPv6 == 4

\* ReplyCode::Succeeded as u8
RepSucceeded == 0

\* value as u8
AsU8(n) == n % 256

\* BufMut::put_u16 (big endian)
PutU16(n) == <<n \div 256, n % 256>>

\* A conversion that takes every method the client does not know for 0x00.
AuthMethodFromLenient(value) ==
    IF value = UsernamePassword THEN "UsernamePassword" ELSE "NoAuth"

\* impl From<u8> for AuthMethod
AuthMethodFrom(value) ==
    CASE value = NoAuth -> "NoAuth"
      [] value = UsernamePassword -> "UsernamePassword"
      [] OTHER -> "NoAcceptable"

\* A conversion that takes every value outside the table for a success.
ReplyCodeFromLenient(value) ==
    CASE value = 1 -> "GeneralFailure"
      [] value = 2 -> "ConnectionNotAllowed"
      [] value = 3 -> "NetworkUnreachable"
      [] value = 4 -> "HostUnreachable"
      [] value = 5 -> "ConnectionRefused"
      [] value = 6 -> "TtlExpired"
      [] value = 7 -> "CommandNotSupported"
      [] value = 8 -> "AddressTypeNotSupported"
      [] OTHER -> "Succeeded"

\* impl From<u8> for ReplyCode
ReplyCodeFrom(value) ==
    CASE value = 0 -> "Succeeded"
      [] value = 1 -> "GeneralFailure"
      [] value = 2 -> "ConnectionNotAllowed"
      [] value = 3 -> "NetworkUnreachable"
      [] value = 4 -> "HostUnreachable"
      [] value = 5 -> "ConnectionRefused"
      [] value = 6 -> "TtlExpired"
      [] value = 7 -> "CommandNotSupported"
      [] value = 8 -> "AddressTypeNotSupported"
      [] OTHER -> "GeneralFailure"

\* ReplyCode::to_error_message
ToErrorMessage(code) ==
    CASE code = "Succeeded" -> "Succeeded"
      [] code = "GeneralFailure" -> "General SOCKS server failure"
      [] code = "ConnectionNotAllowed" -> "Connection not allowed by ruleset"
      [] code = "NetworkUnreachable" -> "Network unreachable"
      [] code = "HostUnreachable" -> "Host unreachable"
      [] code = "ConnectionRefused" -> "Connection refused"
      [] code = "TtlExpired" -> "TTL expired"
      [] code = "CommandNotSupported" -> "Command not supported"
      [] code = "AddressTypeNotSupported" -> "Address type not supported"

\* VoyageError::Socks5Error / IoError / ConfigError
Socks5Error(reason) == [tag |-> "Socks5Error", msg |-> reason]

IoError(reason) == [tag |-> "IoError", msg |-> reason]

ConfigError(reason) == [tag |-> "ConfigError", msg |-> reason]

\* SocketAddr::V4 / SocketAddr::V6
SocketV4(ip, port) == [tag |-> "V4", ip |-> ip, port |-> port]

SocketV6(ip, port) == [tag |-> "V6", ip |-> ip, port |-> port]

\* TargetAddr::from_socket_addr / TargetAddr::from_domain
TargetIp(addr) == [tag |-> "Ip", addr |-> addr]

TargetDomain(domain, port) == [tag |-> "Domain", domain |-> domain, port |-> port]

\* TargetAddr::encode
Encode(t) ==
    CASE t.tag = "Ip" /\ t.addr.tag = "V4" ->
            <<AtypIPv4>> \o t.addr.ip \o PutU16(t.addr.port)
      [] t.tag = "Ip" /\ t.addr.tag = "V6" ->
            <<AtypIPv6, t.addr.ip>> \o PutU16(t.addr.port)
      [] t.tag = "Domain" ->
            <<AtypDomainName, AsU8(Len(t.domain)), t.domain>>
                \o PutU16(t.port)

\* Socks5Client::new
Socks5New(proxy_addr) ==
    [proxy_addr |-> proxy_addr, username |-> None, password |-> None]

\* Socks5Client::with_auth
Socks5WithAuth(proxy_addr, username, password) ==
    [proxy_addr |-> proxy_addr, username |-> Some(username), password |-> Some(password)]

\* <Ipv6Addr as FromStr>::from_str, on the IPv6 literals the model uses
ParseIpv6(host) ==
    IF host \in {"::", "::1"} THEN Ok(host) ELSE Err("invalid IPv6 address syntax")

\* A create_socks5_client that hands on whatever credentials it was given.
CreateSocks5ClientAsGiven(host, port, username, password) ==
    Ok([proxy_addr |-> SocketV4(<<127, 0, 0, 1>>, port),
        username |-> username, password |-> password])

\* create_socks5_client
CreateSocks5Client(host, port, username, password) ==
    IF ParseIpv4(host).ok \/ ParseIpv6(host).ok
    THEN LET addr == IF ParseIpv4(host).ok THEN SocketV4(ParseIpv4(host).v, port)
                     ELSE SocketV6(ParseIpv6(host).v, port)
         IN  Ok(IF username.some /\ password.some
                THEN Socks5WithAuth(addr, username.v, password.v)
                ELSE Socks5New(addr))
    ELSE Err(ConfigError("Hostname resolution not supported in sync context"))

\* The condition of the greeting (handshake): both credentials are set.
OffersPasswordAuth(c) == c.username.some /\ c.password.some

\* The greeting message of handshake
Greeting(c) ==
    <<SOCKS5_VERSION>> \o
    (IF OffersPasswordAuth(c) THEN <<2, NoAuth, UsernamePassword>> ELSE <<1, NoAuth>>)

\* The request message of authenticate
AuthRequest(username, password) ==
    <<1, AsU8(Len(username)), username, AsU8(Len(password)), password>>

\* The request message of send_connect_request
ConnectRequest(t) == <<SOCKS5_VERSION, CmdConnect, 0>> \o Encode(t)

\* The outcome of the code between two awaits: go on to the next await, or
\* return the error.
Goto(pc, need) == [ok |-> TRUE, pc |-> pc, need |-> need]

Fail(e) == [ok |-> FALSE, err |-> e]

\* handshake, from the 2-byte method selection on, with the credential checks
\* at the head of authenticate.
OnSelection(c, response) ==
    IF response[1] # SOCKS5_VERSION THEN Fail(Socks5Error("Invalid SOCKS version"))
    ELSE CASE AuthMethodFrom(response[2]) = "NoAuth" -> Goto("RequestWrite", 0)
           [] AuthMethodFrom(response[2]) = "UsernamePassword" ->
                IF ~c.username.some
                THEN Fail(Socks5Error("Authentication required but no username"))
                ELSE IF ~c.password.some
                THEN Fail(Socks5Error("Authentication required but no password"))
                ELSE Goto("AuthWrite", 0)
           [] AuthMethodFrom(response[2]) = "NoAcceptable" ->
                Fail(Socks5Error("No acceptable auth method"))

\* An authenticate that goes on whatever the status byte says.
OnAuthReplyAnyStatus(response) == Goto("RequestWrite", 0)

\* authenticate, from the 2-byte reply on
OnAuthReply(response) ==
    IF response[2] # 0 THEN Fail(Socks5Error("Authentication failed"))
    ELSE Goto("RequestWrite", 0)

\* send_connect_request, from the 4-byte reply header on
OnReplyHeader(header) ==
    IF header[1] # SOCKS5_VERSION
    THEN Fail(Socks5Error("Invalid SOCKS version in reply"))
    ELSE IF ReplyCodeFrom(header[2]) # "Succeeded"
    THEN Fail(Socks5Error(ToErrorMessage(ReplyCodeFrom(header[2]))))
    ELSE CASE header[4] = 1 -> Goto("BoundAddrRead", 6)
           [] header[4] = 3 -> Goto("BoundLenRead", 0)
           [] header[4] = 4 -> Goto("BoundAddrRead", 18)
           [] OTHER -> Fail(Socks5Error("Unknown address type in reply"))

\* send_connect_request, from the length byte of a domain name on
OnBoundLen(len) == Goto("BoundAddrRead", len[1] + 2)

\* What the proxy server may answer.
SelectionReplies == { <<5, 0>>, <<5, 2>>, <<5, 255>>, <<5, 1>>, <<4, 0>> }

AuthReplies == { <<1, 0>>, <<1, 1>>, <<5, 0>> }

ReplyHeaders ==
    { <<5, 0, 0, 1>>, <<5, 0, 0, 3>>, <<5, 0, 0, 4>>, <<5, 0, 0, 2>>, <<4, 0, 0, 1>> }
        \cup { <<5, rep, 0, 1>> : rep \in (1 .. 9) \cup {255} }

BoundLens == { <<0>>, <<3>> }

\* The configurations the client is made from: a literal address or a host
\* name, with every combination of the two credentials.
SocksConfigs ==
    { [server_host |-> h, server_port |-> 1080, username |-> u, password |-> p] :
        h \in {"127.0.0.1", "proxy.example.com"},
        u \in {None, Some("user")}, p \in {None, Some("pass")} }

\* A label of 63 letters and a dot.
Label64 == "aaaaaaaaaaaaaaaaaaaaaaaaaaaaaaaaaaaaaaaaaaaaaaaaaaaaaaaaaaaaaaa."

\* A domain name of 256 bytes.
LongDomain == Label64 \o Label64 \o Label64 \o Label64

\* The targets handed to connect.
Targets ==
    { TargetIp(SocketV4(<<8, 8, 8, 8>>, 443)),
      TargetDomain("a.io", 443),
      TargetIp(SocketV6("2001:db8::1", 80)),
      TargetDomain(LongDomain, 80) }

\* The SOCKS5 client while another component is explored: no client made.
InitSocksIdle ==
    /\ s5_config = None
    /\ client = None
    /\ target = None
    /\ stream = "None"
    /\ s5_pc = "Idle"
    /\ s5_need = 0
    /\ s5_io = <<>>
    /\ s5_result = None

(***************************************************************************)
(* Packets as ParsedPacket::parse hands them on (packet.rs) and the         *)
(* connection manager (connection.rs).                                     *)
(***************************************************************************)
\* Bit `bit` of a byte (flags & (1 << bit) != 0).
BitSet(byte, bit) == (byte \div Pow2(bit)) % 2 = 1

\* A from_byte that never sets cwr.
TcpFlagsFromByteNoCwr(flags) ==
    [fin |-> BitSet(flags, 0), syn |-> BitSet(flags, 1), rst |-> BitSet(flags, 2),
     psh |-> BitSet(flags, 3), ack |-> BitSet(flags, 4), urg |-> BitSet(flags, 5),
     ece |-> BitSet(flags, 6), cwr |-> FALSE]

\* TcpFlags::from_byte
TcpFlagsFromByte(flags) ==
    [fin |-> BitSet(flags, 0), syn |-> BitSet(flags, 1), rst |-> BitSet(flags, 2),
     psh |-> BitSet(flags, 3), ack |-> BitSet(flags, 4), urg |-> BitSet(flags, 5),
     ece |-> BitSet(flags, 6), cwr |-> BitSet(flags, 7)]

\* TcpFlags::is_syn
IsSyn(flags) == flags.syn /\ ~flags.ack

\* TcpFlags::to_byte: each flag that is set ORs its bit into 0u8.
TcpFlagsToByte(flags) ==
    (IF flags.fin THEN 1 ELSE 0) + (IF flags.syn THEN 2 ELSE 0)
    + (IF flags.rst THEN 4 ELSE 0) + (IF flags.psh THEN 8 ELSE 0)
    + (IF flags.ack THEN 16 ELSE 0) + (IF flags.urg THEN 32 ELSE 0)
    + (IF flags.ece THEN 64 ELSE 0) + (IF flags.cwr THEN 128 ELSE 0)

\* TcpFlags::is_syn_ack
IsSynAck(flags) == flags.syn /\ flags.ack

\* TcpFlags::is_fin
IsFin(flags) == flags.fin

\* TcpFlags::is_rst
IsRst(flags) == flags.rst

\* VoyageError::InvalidPacket
InvalidPacket(reason) == Err([tag |-> "InvalidPacket", msg |-> reason])

\* An index outside the slice: the thread panics.
Panic == Err([tag |-> "panic", msg |-> "index out of bounds"])

IPV4_MIN_HEADER_LEN == 20
IPV6_HEADER_LEN == 40
TCP_MIN_HEADER_LEN == 20
UDP_HEADER_LEN == 8
PROTO_ICMP == 1
PROTO_ICMPV6 == 58

\* The decimal digits of `n` ({} of format!).
RECURSIVE Decimal(_)
Decimal(n) ==
    IF n < 10 THEN CharAt(DigitChars, n + 1)
    ELSE Decimal(n \div 10) \o CharAt(DigitChars, (n % 10) + 1)

\* data[i] of a slice, i counted from 0.
ByteAt(data, i) == data[i + 1]

\* Every index of `indices` is inside the slice.
Readable(data, indices) == \A i \in indices : i < Len(data)

\* &data[from..]
SliceFrom(data, from) == SubSeq(data, from + 1, Len(data))

\* u16::from_be_bytes
U16FromBe(hi, lo) == hi * 256 + lo

\* A length test that lets every slice through.
ShorterThanNever(data, n) == FALSE

\* data.len() < n
ShorterThan(data, n) == Len(data) < n

\* TransportProtocol::from_proto
FromProto(proto) ==
    CASE proto = ProtoTcp -> "Tcp"
      [] proto = ProtoUdp -> "Udp"
      [] proto \in {PROTO_ICMP, PROTO_ICMPV6} -> "Icmp"
      [] OTHER -> "Other"

\* IpPacketInfo::parse_ipv4
ParseIpv4Header(data) ==
    IF ShorterThan(data, IPV4_MIN_HEADER_LEN)
    THEN InvalidPacket("IPv4 packet too short")
    ELSE IF ~Readable(data, {0}) THEN Panic
    ELSE LET ihl == (ByteAt(data, 0) % 16) * 4
         IN  IF ihl < IPV4_MIN_HEADER_LEN \/ ShorterThan(data, ihl)
             THEN InvalidPacket("Invalid IPv4 IHL")
             ELSE IF ~Readable(data, {2, 3, 9} \cup (12 .. 19)) THEN Panic
             ELSE Ok([version |-> "V4",
                      src_ip |-> [tag |-> "V4", addr |-> SubSeq(data, 13, 16)],
                      dst_ip |-> [tag |-> "V4", addr |-> SubSeq(data, 17, 20)],
                      protocol |-> FromProto(ByteAt(data, 9)),
                      proto_number |-> ByteAt(data, 9),
                      total_len |-> U16FromBe(ByteAt(data, 2), ByteAt(data, 3)),
                      header_len |-> ihl,
                      payload_offset |-> ihl])

\* IpPacketInfo::parse_ipv6
ParseIpv6Header(data) ==
    IF ShorterThan(data, IPV6_HEADER_LEN)
    THEN InvalidPacket("IPv6 packet too short")
    ELSE IF ~Readable(data, 4 .. 39) THEN Panic
    ELSE Ok([version |-> "V6",
             src_ip |-> [tag |-> "V6", addr |-> SubSeq(data, 9, 24)],
             dst_ip |-> [tag |-> "V6", addr |-> SubSeq(data, 25, 40)],
             protocol |-> FromProto(ByteAt(data, 6)),
             proto_number |-> ByteAt(data, 6),
             total_len |-> IPV6_HEADER_LEN + U16FromBe(ByteAt(data, 4), ByteAt(data, 5)),
             header_len |-> IPV6_HEADER_LEN,
             payload_offset |-> IPV6_HEADER_LEN])

\* IpPacketInfo::parse
IpPacketInfoParse(data) ==
    IF data = <<>> THEN InvalidPacket("Empty packet")
    ELSE LET version == ByteAt(data, 0) \div 16
         IN  CASE version = 4 -> ParseIpv4Header(data)
               [] version = 6 -> ParseIpv6Header(data)
               [] OTHER -> InvalidPacket("Unknown IP version: " \o Decimal(version))

\* IpPacketInfo::get_payload
IpGetPayload(ip, data) ==
    IF Len(data) > ip.payload_offset THEN SliceFrom(data, ip.payload_offset) ELSE <<>>

\* TcpPacketInfo::parse
TcpPacketInfoParse(data) ==
    IF ShorterThan(data, TCP_MIN_HEADER_LEN)
    THEN InvalidPacket("TCP header too short")
    ELSE IF ~Readable(data, 0 .. 19) THEN Panic
    ELSE LET data_offset == (ByteAt(data, 12) \div 16) * 4
         IN  IF data_offset < TCP_MIN_HEADER_LEN \/ ShorterThan(data, data_offset)
             THEN InvalidPacket("Invalid TCP data offset")
             ELSE Ok([src_port |-> U16FromBe(ByteAt(data, 0), ByteAt(data, 1)),
                      dst_port |-> U16FromBe(ByteAt(data, 2), ByteAt(data, 3)),
                      seq_num |-> SubSeq(data, 5, 8),
                      ack_num |-> SubSeq(data, 9, 12),
                      data_offset |-> data_offset,
                      flags |-> TcpFlagsFromByte(ByteAt(data, 13)),
                      window |-> U16FromBe(ByteAt(data, 14), ByteAt(data, 15)),
                      checksum |-> U16FromBe(ByteAt(data, 16), ByteAt(data, 17)),
                      urgent_ptr |-> U16FromBe(ByteAt(data, 18), ByteAt(data, 19))])

\* UdpPacketInfo::parse
UdpPacketInfoParse(data) ==
    IF ShorterThan(data, UDP_HEADER_LEN)
    THEN InvalidPacket("UDP header too short")
    ELSE IF ~Readable(data, 0 .. 7) THEN Panic
    ELSE Ok([src_port |-> U16FromBe(ByteAt(data, 0), ByteAt(data, 1)),
             dst_port |-> U16FromBe(ByteAt(data, 2), ByteAt(data, 3)),
             length |-> U16FromBe(ByteAt(data, 4), ByteAt(data, 5)),
             checksum |-> U16FromBe(ByteAt(data, 6), ByteAt(data, 7))])

\* ParsedPacket::parse
ParsedPacketParse(data) ==
    LET ip == IpPacketInfoParse(data)
    IN  IF ~ip.ok THEN ip
        ELSE LET transport_data == IpGetPayload(ip.v, data)
             IN  CASE ip.v.protocol = "Tcp" ->
                        LET tcp == TcpPacketInfoParse(transport_data)
                        IN  IF ~tcp.ok THEN tcp
                            ELSE Ok([ip |-> ip.v, tcp |-> Some(tcp.v), udp |-> None])
                   [] ip.v.protocol = "Udp" ->
                        LET udp == UdpPacketInfoParse(transport_data)
                        IN  IF ~udp.ok THEN udp
                            ELSE Ok([ip |-> ip.v, tcp |-> None, udp |-> Some(udp.v)])
                   [] OTHER -> Ok([ip |-> ip.v, tcp |-> None, udp |-> None])

\* ParsedPacket::parse has not been called.
InitParseIdle ==
    /\ pkt_data = <<>>
    /\ pkt_result = None

\* A ParsedPacket of a TCP segment, of a UDP datagram and of an ICMP packet.
TcpPacket(src_ip, src_port, dst_ip, dst_port, flags) ==
    [ip |-> [src_ip |-> src_ip, dst_ip |-> dst_ip, protocol |-> "Tcp"],
     tcp |-> Some([src_port |-> src_port, dst_port |-> dst_port,
                   flags |-> TcpFlagsFromByte(flags)]),
     udp |-> None]

UdpPacket(src_ip, src_port, dst_ip, dst_port) ==
    [ip |-> [src_ip |-> src_ip, dst_ip |-> dst_ip, protocol |-> "Udp"],
     tcp |-> None,
     udp |-> Some([src_port |-> src_port, dst_port |-> dst_port])]

IcmpPacket(src_ip, dst_ip) ==
    [ip |-> [src_ip |-> src_ip, dst_ip |-> dst_ip, protocol |-> "Icmp"],
     tcp |-> None, udp |-> None]

\* ParsedPacket::src_addr
PacketSrcAddr(p) ==
    IF p.tcp.some THEN Some(<<p.ip.src_ip, p.tcp.v.src_port>>)
    ELSE IF p.udp.some THEN Some(<<p.ip.src_ip, p.udp.v.src_port>>)
    ELSE None

\* ParsedPacket::dst_addr
PacketDstAddr(p) ==
    IF p.tcp.some THEN Some(<<p.ip.dst_ip, p.tcp.v.dst_port>>)
    ELSE IF p.udp.some THEN Some(<<p.ip.dst_ip, p.udp.v.dst_port>>)
    ELSE None

\* ParsedPacket::to_nat_key
ToNatKey(p) ==
    IF ~PacketSrcAddr(p).some \/ ~PacketDstAddr(p).some THEN None
    ELSE CASE p.ip.protocol = "Tcp" -> Some(NatKeyTcp(PacketSrcAddr(p).v, PacketDstAddr(p).v))
           [] p.ip.protocol = "Udp" -> Some(NatKeyUdp(PacketSrcAddr(p).v, PacketDstAddr(p).v))
           [] OTHER -> None

\* ParsedPacket::is_tcp_syn
IsTcpSyn(p) == IF p.tcp.some THEN IsSyn(p.tcp.v.flags) ELSE FALSE

\* impl From<NatState> for ConnectionState
ConnectionStateFrom(state) ==
    CASE state = "SynSent" -> "Connecting"
      [] state = "Established" -> "Established"
      [] state \in {"FinWait", "Closing"} -> "Closing"
      [] state = "Closed" -> "Closed"

\* The ConnectionManager the variables hold.
ConnMgr ==
    [nat |-> NatMgr, socket_handles |-> socket_handles, handle_to_key |-> handle_to_key,
     total_bytes_sent |-> total_bytes_sent, total_bytes_received |-> total_bytes_received,
     total_connections |-> total_connections]

\* HashMap::get(..).copied()
Lookup(map, k) == IF k \in DOMAIN map THEN Some(map[k]) ELSE None

\* The ConnectionInfo built from an entry.
ConnectionInfo(key, entry, socket_handle, t) ==
    [key |-> key, local_port |-> entry.local_port, socket_handle |-> socket_handle,
     state |-> ConnectionStateFrom(entry.state), bytes_sent |-> entry.bytes_sent,
     bytes_received |-> entry.bytes_received, created_at |-> t]

\* The test of process_packet for counting a connection.
CountsAsNew(entry, p) == entry.state = "SynSent" /\ IsTcpSyn(p)

\* process_packet from the return of get_or_create, which gave `r` for `key`:
\* the manager afterwards and the result.
ConnAfterGetOrCreate(cm, p, key, r, t) ==
    IF r.ret.tag = "Err"
    THEN [cm |-> [cm EXCEPT !.nat = r.nat],
          result |-> Err([tag |-> r.ret.error])]
    ELSE LET entry == r.nat.entries[key]
         IN  [cm |-> [cm EXCEPT
                        !.nat = r.nat,
                        !.total_connections =
                            IF CountsAsNew(entry, p) THEN @ + 1 ELSE @],
              result |-> Ok(ConnectionInfo(key, entry,
                                           Lookup(cm.socket_handles, key), t))]

\* ConnectionManager::process_packet: the manager afterwards and the result.
ConnProcessPacket(cm, p, t) ==
    LET key == ToNatKey(p)
    IN  IF ~key.some
        THEN [cm |-> cm,
              result |-> Err([tag |-> "InvalidPacket", msg |-> "Cannot create NAT key"])]
        ELSE ConnAfterGetOrCreate(cm, p, key.v, NatGetOrCreate(cm.nat, key.v, t), t)

\* ConnectionManager::register_socket
ConnRegisterSocket(cm, key, handle) ==
    [cm EXCEPT !.socket_handles = With(@, key, handle),
               !.handle_to_key = With(@, handle, key)]

\* ConnectionManager::establish
ConnEstablish(cm, key, t) == [cm EXCEPT !.nat = NatEstablish(@, key, t)]

\* ConnectionManager::close_connection
ConnCloseConnection(cm, key, t) == [cm EXCEPT !.nat = NatClose(@, key, t)]

\* ConnectionManager::remove_connection: the manager afterwards and the result.
ConnRemoveConnection(cm, key, t) ==
    IF key \notin DOMAIN cm.nat.entries
    THEN [cm |-> cm, result |-> None]
    ELSE LET entry == cm.nat.entries[key]
             unregistered ==
                 IF key \in DOMAIN cm.socket_handles
                 THEN [cm EXCEPT
                         !.socket_handles = Without(@, key),
                         !.handle_to_key = Without(@, cm.socket_handles[key])]
                 ELSE cm
         IN  [cm |-> [unregistered EXCEPT !.nat = NatRemove(cm.nat, key)],
              result |-> Some(ConnectionInfo(key, entry, None, t))]

\* The removal loop of cleanup.
RECURSIVE ConnRemoveAll(_, _, _)
ConnRemoveAll(cm, keys, t) ==
    IF keys = {} THEN cm
    ELSE LET k == CHOOSE x \in keys : TRUE
         IN  ConnRemoveAll(ConnRemoveConnection(cm, k, t).cm, keys \ {k}, t)

\* ConnectionManager::cleanup
ConnCleanup(cm, t) ==
    LET closed == { k \in DOMAIN cm.nat.entries : cm.nat.entries[k].state = "Closed" }
        removed == ConnRemoveAll(cm, closed, t)
    IN  [removed EXCEPT !.nat = NatCleanupExpired(@, t)]

\* smoltcp's tcp::State.
TcpStates ==
    {"Closed", "Listen", "SynSent", "SynReceived", "Established", "FinWait1",
     "FinWait2", "CloseWait", "Closing", "LastAck", "TimeWait"}

\* The first match of sync_socket_states: the NAT state for a socket state,
\* None where the loop goes on to the next handle.
NewStateFor(socket_state) ==
    CASE socket_state = "Established" -> Some("Established")
      [] socket_state \in {"FinWait1", "FinWait2", "Closing", "TimeWait"} -> Some("FinWait")
      [] socket_state \in {"Closed", "CloseWait", "LastAck"} -> Some("Closed")
      [] OTHER -> None

\* The transition of sync_socket_states, made whatever the entry's state is.
SyncEntryAlways(e, new_state, t) ==
    CASE new_state = "Established" -> EntryEstablish(e, t)
      [] new_state = "FinWait" -> EntryStartClose(e, t)
      [] new_state = "Closed" -> EntryClose(e, t)
      [] OTHER -> e

\* What sync_socket_states does to the entry it found for a key.
SyncEntry(e, new_state, t) ==
    IF e.state # new_state
    THEN CASE new_state = "Established" -> EntryEstablish(e, t)
           [] new_state = "FinWait" -> EntryStartClose(e, t)
           [] new_state = "Closed" -> EntryClose(e, t)
           [] OTHER -> e
    ELSE e

\* The loop of sync_socket_states over the registered keys; `sockets` gives
\* the state of the TCP socket behind each handle.
RECURSIVE SyncLoop(_, _, _, _)
SyncLoop(cm, keys, sockets, t) ==
    IF keys = {} THEN cm
    ELSE LET key == CHOOSE x \in keys : TRUE
             new_state == NewStateFor(sockets[cm.socket_handles[key]])
             next == IF new_state.some /\ key \in DOMAIN cm.nat.entries
                     THEN [cm EXCEPT !.nat.entries[key] = SyncEntry(@, new_state.v, t)]
                     ELSE cm
         IN  SyncLoop(next, keys \ {key}, sockets, t)

\* ConnectionManager::sync_socket_states
ConnSyncSocketStates(cm, sockets, t) ==
    SyncLoop(cm, DOMAIN cm.socket_handles, sockets, t)

\* The variables take the fields of the manager `cm`.
SetConn(cm) ==
    /\ entries' = cm.nat.entries
    /\ port_to_key' = cm.nat.port_to_key
    /\ next_port' = cm.nat.next_port
    /\ socket_handles' = cm.socket_handles
    /\ handle_to_key' = cm.handle_to_key
    /\ total_bytes_sent' = cm.total_bytes_sent
    /\ total_bytes_received' = cm.total_bytes_received
    /\ total_connections' = cm.total_connections

\* The fields of ConnectionManager::new apart from its NAT table.
InitConnIdle ==
    /\ socket_handles = EmptyMap
    /\ handle_to_key = EmptyMap
    /\ total_bytes_sent = 0
    /\ total_bytes_received = 0
    /\ total_connections = 0
    /\ cret = [op |-> "new"]

(***************************************************************************)
(* The embedding layer (ffi.rs): CORE_INSTANCE and what it holds.          *)
(***************************************************************************)
\* VoyageError::NotInitialized, AlreadyInitialized and InvalidPacket as results.
NotInitialized == Err([tag |-> "NotInitialized"])

AlreadyInitialized == Err([tag |-> "AlreadyInitialized"])

\* A lookup of the instance that makes one up when there is none.
GetCoreOrDefault(cell) == Ok(cell)

\* CORE_INSTANCE.get().ok_or(VoyageError::NotInitialized)
GetCore(cell) == IF cell.some THEN Ok(cell.v) ELSE NotInitialized

\* A set that replaces what the cell holds.
OnceLockSetReplace(cell, value) == [cell |-> Some(value), result |-> Ok("unit")]

\* OnceLock::set followed by map_err: the cell afterwards and the result.
OnceLockSet(cell, value) ==
    IF cell.some
    THEN [cell |-> cell, result |-> AlreadyInitialized]
    ELSE [cell |-> Some(value), result |-> Ok("unit")]

\* NatManager::new and ConnectionManager::new
ConnNew ==
    [nat |-> [entries |-> EmptyMap, port_to_key |-> EmptyMap, next_port |-> min_port],
     socket_handles |-> EmptyMap, handle_to_key |-> EmptyMap,
     total_bytes_sent |-> 0, total_bytes_received |-> 0, total_connections |-> 0]

\* VoyageCore::new
VoyageCoreNew(c) ==
    [config |-> c, conn_manager |-> ConnNew, proxy_manager |-> ProxyWithConfig(c)]

\* The CoreStats of get_stats.
CoreStats(cm) ==
    [bytes_sent |-> cm.total_bytes_sent,
     bytes_received |-> cm.total_bytes_received,
     active_connections |-> Cardinality(DOMAIN cm.nat.entries),
     total_connections |-> cm.total_connections]

\* dst_ip.as_ref().and_then(|s| s.parse().ok())
ParseDstIpRaw(dst_ip) ==
    IF ~dst_ip.some THEN None
    ELSE IF ParseIpv4(dst_ip.v).ok THEN Some([tag |-> "V4", addr |-> ParseIpv4(dst_ip.v).v])
    ELSE IF ParseIpv6(dst_ip.v).ok THEN Some(IpV6)
    ELSE None

\* A mutex that every thread finds free.
MutexFreeAlways(holder) == TRUE

\* Mutex::lock returns once no thread holds the mutex.
MutexFree(holder) == holder = "none"

\* The threads of the host that call process_inbound_packet.
InboundThreads == {"t1", "t2"}

\* No init_core call has been made.
InitFfiIdle ==
    /\ core = None
    /\ inflight = [c \in ProxyConfigs |-> 0]
    /\ inits_ok = 0
    /\ inits_failed = 0
    /\ shutdown_logged = FALSE
    /\ ffi_calls = 0
    /\ fret = [op |-> "none"]
    /\ core_mutex = "none"
    /\ inbound = [t \in InboundThreads |-> [pc |-> "idle"]]
    /\ linearized = <<>>

(***************************************************************************)
(* The virtual TUN device (device.rs).                                     *)
(***************************************************************************)
\* VecDeque::push_back at the front of the queue instead of its back.
PushBackAtFront(queue, item) == <<item>> \o queue

\* VecDeque::push_back
PushBack(queue, item) == Append(queue, item)

\* VecDeque::pop_front: the queue afterwards and the item, None when empty.
PopFront(queue) ==
    IF queue = <<>>
    THEN [queue |-> queue, item |-> None]
    ELSE [queue |-> Tail(queue), item |-> Some(Head(queue))]

\* VecDeque::drain(..).collect(): the queue afterwards and the items.
Drain(queue) == [queue |-> <<>>, items |-> queue]

\* vec![0u8; len]
Zeroed(len) == [i \in 1..len |-> 0]

\* The closure of VirtualTxToken::consume writes the buffer: byte `b` everywhere.
Filled(buffer, b) == [i \in DOMAIN buffer |-> b]

\* The threads of the host that call inject_packet.
Producers == {"p1", "p2"}

\* VirtualTunDevice::new: both queues empty, no mutex held.
InitDevIdle ==
    /\ rx_queue = <<>>
    /\ tx_queue = <<>>
    /\ rx_guard = "none"
    /\ produced = [t \in Producers |-> 0]
    /\ received = <<>>
    /\ tx_tokens = 0
    /\ transmitted = 0
    /\ dret = [op |-> "new"]

(***************************************************************************)
(* The NAT table: initial states and operations.                          *)
(***************************************************************************)
\* NatManager::with_config(min_port, max_port, max_entries)
InitNat ==
    /\ min_port = U16Max - MaxPortSpan
    /\ max_port \in min_port .. U16Max
    /\ max_entries \in EntryLimits
    /\ entries = EmptyMap
    /\ port_to_key = EmptyMap
    /\ next_port = min_port
    /\ now = 0
    /\ ret = RetUnit

GetOrCreate(key) ==
    LET r == NatGetOrCreate(NatMgr, key, now)
    IN  SetNat(r.nat) /\ ret' = r.ret

Remove(key) ==
    /\ SetNat(NatRemove(NatMgr, key))
    /\ ret' = RetOption(Lookup(entries, key))

CleanupExpired == SetNat(NatCleanupExpired(NatMgr, now)) /\ ret' = RetUnitOf("cleanup_expired")

Establish(key) ==
    /\ SetNat(NatEstablish(NatMgr, key, now))
    /\ ret' = RetBool(key \in DOMAIN entries)

StartClose(key) == SetNat(NatStartClose(NatMgr, key, now)) /\ ret' = RetUnit

Close(key) == SetNat(NatClose(NatMgr, key, now)) /\ ret' = RetUnit

AddBytesSent(key, bytes) ==
    /\ NatTotalBytesSent(NatMgr) + NatTotalBytesReceived(NatMgr) + bytes <= MaxBytes
    /\ SetNat(NatAddBytesSent(NatMgr, key, bytes, now))
    /\ ret' = RetUnit

AddBytesReceived(key, bytes) ==
    /\ NatTotalBytesSent(NatMgr) + NatTotalBytesReceived(NatMgr) + bytes <= MaxBytes
    /\ SetNat(NatAddBytesReceived(NatMgr, key, bytes, now))
    /\ ret' = RetUnit

\* Time passes between two calls.
Tick ==
    /\ \E t \in Instants : t > now /\ now' = t
    /\ UNCHANGED <<entries, port_to_key, next_port, min_port, max_port, max_entries, ret>>
    /\ UNCHANGED nonNatVars

Next ==
    \/ \E key \in Keys : GetOrCreate(key)
    \/ \E key \in Keys : Remove(key)
    \/ CleanupExpired
    \/ \E key \in Keys : Establish(key)
    \/ \E key \in Keys : StartClose(key)
    \/ \E key \in Keys : Close(key)
    \/ \E key \in Keys, bytes \in 1 .. MaxBytes : AddBytesSent(key, bytes)
    \/ \E key \in Keys, bytes \in 1 .. MaxBytes : AddBytesReceived(key, bytes)
    \/ Tick

\* RuleEngine::new
InitRuleIdle ==
    /\ rules = <<>>
    /\ default_action = "Direct"
    /\ rret = [op |-> "new"]

Init == InitNat /\ InitRuleIdle /\ InitProxyIdle /\ InitSocksIdle /\ InitConnIdle /\ InitFfiIdle /\ InitDevIdle /\ InitParseIdle

Spec == Init /\ [][Next]_vars

\* A table with more flows than ports: the flows of Keys and a second TCP
\* flow, on a range of at most MaxPortSpan + 1 ports.
AllocKeys == Keys \cup { NatKeyTcp(<<"10.0.0.2", 23456>>, <<"8.8.8.8", 443>>) }

\* with_config is explored here with these values of max_entries
AllocEntryLimits == {2, 3}

\* NatManager::with_config(min_port, max_port, max_entries)
InitNatAlloc ==
    /\ min_port = U16Max - MaxPortSpan
    /\ max_port \in min_port .. U16Max
    /\ max_entries \in AllocEntryLimits
    /\ entries = EmptyMap
    /\ port_to_key = EmptyMap
    /\ next_port = min_port
    /\ now = 0
    /\ ret = RetUnit

NextAlloc ==
    \/ \E key \in AllocKeys : GetOrCreate(key)
    \/ \E key \in AllocKeys : Remove(key)
    \/ \E key \in AllocKeys : Close(key)

InitAlloc == InitNatAlloc /\ InitRuleIdle /\ InitProxyIdle /\ InitSocksIdle /\ InitConnIdle /\ InitFfiIdle /\ InitDevIdle /\ InitParseIdle

SpecAlloc == InitAlloc /\ [][NextAlloc]_vars

(***************************************************************************)
(* The rule engine: initial states and operations.                        *)
(***************************************************************************)
\* NatManager::new
InitNatIdle ==
    /\ min_port = 10000
    /\ max_port = 60000
    /\ max_entries = 65535
    /\ entries = EmptyMap
    /\ port_to_key = EmptyMap
    /\ next_port = min_port
    /\ now = 0
    /\ ret = RetUnit

\* RuleEngine::with_default
InitRule ==
    /\ rules = <<>>
    /\ default_action \in RouteActions
    /\ rret = [op |-> "new"]

LoadFromConfig(text) ==
    \E r \in {RuleLoadFromConfig(rules, text)} :
        /\ Len(r.rules) <= MaxRules
        /\ rules' = r.rules
        /\ rret' = [op |-> "load_from_config", config |-> text, result |-> r.result]
        /\ UNCHANGED <<default_action, nonRuleVars>>

AddRule(rule) ==
    /\ Len(rules) < MaxRules
    /\ rules' = RuleAddRule(rules, rule)
    /\ rret' = [op |-> "add_rule"]
    /\ UNCHANGED <<default_action, nonRuleVars>>

Clear ==
    /\ rules' = <<>>
    /\ rret' = [op |-> "clear"]
    /\ UNCHANGED <<default_action, nonRuleVars>>

Evaluate(x) ==
    /\ rret' = [op |-> "evaluate", input |-> x,
                result |-> RuleEvaluate(rules, default_action,
                                        x.domain, x.ip, x.dst_port, x.src_port)]
    /\ UNCHANGED <<rules, default_action, nonRuleVars>>

NextRule ==
    \/ \E text \in ConfigTexts : LoadFromConfig(text)
    \/ \E rule \in KnownRules : AddRule(rule)
    \/ Clear
    \/ \E x \in Inputs : Evaluate(x)

InitEngine ==
    InitNatIdle /\ InitRule /\ InitProxyIdle /\ InitSocksIdle /\ InitConnIdle /\ InitFfiIdle /\ InitDevIdle /\ InitParseIdle

SpecRule == InitEngine /\ [][NextRule]_vars

\* The configuration texts with IP-CIDR lines: prefix lengths 0, 13, 32,
\* 33 and 256.
CidrTexts ==
    { "IP-CIDR,0.0.0.0/0,REJECT",
      "IP-CIDR,10.0.0.0/13,DIRECT",
      "IP-CIDR,10.1.2.3/32,PROXY",
      "IP-CIDR,10.0.0.0/33,REJECT",
      "IP-CIDR,10.0.0.0/256,PROXY" }

\* The connections evaluated against them.
CidrInputs ==
    { Conn(None, Some(IpV4(10, 1, 2, 3)), 443, 0),
      Conn(None, Some(IpV4(10, 1, 2, 2)), 443, 0),
      Conn(None, Some(IpV4(10, 7, 255, 255)), 80, 0),
      Conn(None, Some(IpV4(10, 8, 0, 1)), 80, 0),
      Conn(Some("a.io"), Some(IpV4(138, 1, 2, 3)), 80, 0),
      Conn(None, Some(IpV6), 80, 8080),
      Conn(Some("a.io"), None, 443, 0) }

NextCidr ==
    \/ \E text \in CidrTexts : LoadFromConfig(text)
    \/ Clear
    \/ \E x \in CidrInputs : Evaluate(x)

InitCidr ==
    InitNatIdle /\ InitRule /\ InitProxyIdle /\ InitSocksIdle /\ InitConnIdle /\ InitFfiIdle /\ InitDevIdle /\ InitParseIdle

SpecCidr == InitCidr /\ [][NextCidr]_vars

(***************************************************************************)
(* The proxy manager: initial states and operations.                      *)
(***************************************************************************)
\* The rule texts handed to load_rules.
ProxyRuleTexts ==
    { "DOMAIN-SUFFIX,.a.io,PROXY\n\nfinal,direct",
      "FINAL,REJECT\nUNKNOWN,foo,DIRECT\nDST-PORT,443,PROXY" }

\* The connections handed to evaluate_route.
RouteInputs ==
    { Conn(Some("a.io"), None, 443, 0),
      Conn(None, Some(IpV4(10, 1, 2, 3)), 80, 0) }

\* The byte counts handed to add_proxy_bytes_sent / add_proxy_bytes_received.
ByteCounts == 1 .. MaxBytes

\* ProxyManager::new or ProxyManager::with_config
InitProxy ==
    /\ \E pm \in {ProxyNew} \cup { ProxyWithConfig(c) : c \in ProxyConfigs } :
          /\ config = pm.config
          /\ rules = pm.rule_engine.rules
          /\ default_action = pm.rule_engine.default_action
          /\ stats = pm.stats
          /\ enabled = pm.enabled
    /\ route_calls = 0
    /\ pret = [op |-> "new"]
    /\ rret = [op |-> "new"]

SetConfig(c) ==
    /\ SetProxy(ProxySetConfig(ProxyMgr, c))
    /\ pret' = [op |-> "set_config"]
    /\ UNCHANGED <<route_calls, nonProxyVars>>

Enable ==
    /\ SetProxy(ProxyEnable(ProxyMgr))
    /\ pret' = [op |-> "enable"]
    /\ UNCHANGED <<route_calls, nonProxyVars>>

Disable ==
    /\ SetProxy(ProxyDisable(ProxyMgr))
    /\ pret' = [op |-> "disable"]
    /\ UNCHANGED <<route_calls, nonProxyVars>>

LoadRules(text) ==
    \E r \in {ProxyLoadRules(ProxyMgr, text)} :
        /\ ProxyRuleCount(r.pm) <= MaxRules
        /\ SetProxy(r.pm)
        /\ pret' = [op |-> "load_rules", result |-> r.result]
        /\ UNCHANGED <<route_calls, nonProxyVars>>

ClearRules ==
    /\ SetProxy(ProxyClearRules(ProxyMgr))
    /\ pret' = [op |-> "clear_rules"]
    /\ UNCHANGED <<route_calls, nonProxyVars>>

EvaluateRoute(x) ==
    LET r == ProxyEvaluateRoute(ProxyMgr, x)
    IN  /\ route_calls < MaxRouteCalls
        /\ SetProxy(r.pm)
        /\ route_calls' = route_calls + 1
        /\ pret' = [op |-> "evaluate_route", decision |-> r.decision]
        /\ UNCHANGED nonProxyVars

AddProxyBytesSent(bytes) ==
    /\ stats.proxy_bytes_sent + stats.proxy_bytes_received + bytes <= MaxBytes
    /\ SetProxy(ProxyAddBytesSent(ProxyMgr, bytes))
    /\ pret' = [op |-> "add_proxy_bytes"]
    /\ UNCHANGED <<route_calls, nonProxyVars>>

AddProxyBytesReceived(bytes) ==
    /\ stats.proxy_bytes_sent + stats.proxy_bytes_received + bytes <= MaxBytes
    /\ SetProxy(ProxyAddBytesReceived(ProxyMgr, bytes))
    /\ pret' = [op |-> "add_proxy_bytes"]
    /\ UNCHANGED <<route_calls, nonProxyVars>>

ResetStats ==
    /\ SetProxy(ProxyResetStats(ProxyMgr))
    /\ route_calls' = 0
    /\ pret' = [op |-> "reset_stats"]
    /\ UNCHANGED nonProxyVars

NextProxy ==
    \/ \E c \in ProxyConfigs : SetConfig(c)
    \/ Enable
    \/ Disable
    \/ \E text \in ProxyRuleTexts : LoadRules(text)
    \/ ClearRules
    \/ \E x \in RouteInputs : EvaluateRoute(x)
    \/ \E bytes \in ByteCounts : AddProxyBytesSent(bytes)
    \/ \E bytes \in ByteCounts : AddProxyBytesReceived(bytes)
    \/ ResetStats

InitManager == InitNatIdle /\ InitProxy /\ InitSocksIdle /\ InitConnIdle /\ InitFfiIdle /\ InitDevIdle /\ InitParseIdle

SpecProxy == InitManager /\ [][NextProxy]_vars

(***************************************************************************)
(* Socks5Client::connect: one action per await, with the code that follows *)
(* it up to the next await.                                                *)
(***************************************************************************)
\* create_socks5_client on a configuration, and the call of connect
InitSocks ==
    /\ s5_config \in SocksConfigs
    /\ client = CreateSocks5Client(s5_config.server_host, s5_config.server_port,
                                   s5_config.username, s5_config.password)
    /\ target \in Targets
    /\ stream = "None"
    /\ s5_pc = IF client.ok THEN "Connect" ELSE "Idle"
    /\ s5_need = 0
    /\ s5_io = <<>>
    /\ s5_result = None

\* connect returns the error; its local stream is dropped.
ReturnErr(e) ==
    /\ s5_result' = Err(e)
    /\ s5_pc' = "Done"
    /\ s5_need' = 0
    /\ stream' = IF stream = "Open" THEN "Closed" ELSE stream

\* connect goes on to the next await or returns the error.
Continue(outcome) ==
    IF outcome.ok
    THEN /\ s5_pc' = outcome.pc
         /\ s5_need' = outcome.need
         /\ UNCHANGED <<stream, s5_result>>
    ELSE ReturnErr(outcome.err)

\* stream.write_all(bytes).await, then on to the await `next`
Write(what, bytes, next) ==
    \E ok \in BOOLEAN :
        /\ s5_io' = Append(s5_io, [dir |-> "write", what |-> what, bytes |-> bytes, ok |-> ok])
        /\ IF ok THEN Continue(Goto(next, 0)) ELSE ReturnErr(IoError("write"))

\* stream.read_exact(..).await succeeded with `bytes`
ReadOk(what, bytes, outcome) ==
    /\ s5_io' = Append(s5_io, [dir |-> "read", what |-> what, bytes |-> bytes, ok |-> TRUE])
    /\ Continue(outcome)

\* stream.read_exact(..).await failed
ReadErr(what) ==
    /\ s5_io' = Append(s5_io, [dir |-> "read", what |-> what, bytes |-> <<>>, ok |-> FALSE])
    /\ ReturnErr(IoError("read"))

TcpConnect ==
    /\ s5_pc = "Connect"
    /\ \E ok \in BOOLEAN :
          IF ok THEN /\ stream' = "Open"
                     /\ s5_pc' = "GreetingWrite"
                     /\ UNCHANGED <<s5_need, s5_result>>
          ELSE ReturnErr(IoError("connect"))
    /\ UNCHANGED <<s5_config, client, target, s5_io, nonSocksVars>>

GreetingWrite ==
    /\ s5_pc = "GreetingWrite"
    /\ Write("greeting", Greeting(client.v), "SelectionRead")
    /\ UNCHANGED <<s5_config, client, target, nonSocksVars>>

SelectionRead ==
    /\ s5_pc = "SelectionRead"
    /\ \/ \E response \in SelectionReplies :
             ReadOk("selection", response, OnSelection(client.v, response))
       \/ ReadErr("selection")
    /\ UNCHANGED <<s5_config, client, target, nonSocksVars>>

AuthWrite ==
    /\ s5_pc = "AuthWrite"
    /\ Write("auth", AuthRequest(client.v.username.v, client.v.password.v), "AuthRead")
    /\ UNCHANGED <<s5_config, client, target, nonSocksVars>>

AuthRead ==
    /\ s5_pc = "AuthRead"
    /\ \/ \E response \in AuthReplies : ReadOk("auth", response, OnAuthReply(response))
       \/ ReadErr("auth")
    /\ UNCHANGED <<s5_config, client, target, nonSocksVars>>

RequestWrite ==
    /\ s5_pc = "RequestWrite"
    /\ Write("request", ConnectRequest(target), "ReplyHeaderRead")
    /\ UNCHANGED <<s5_config, client, target, nonSocksVars>>

ReplyHeaderRead ==
    /\ s5_pc = "ReplyHeaderRead"
    /\ \/ \E header \in ReplyHeaders : ReadOk("reply", header, OnReplyHeader(header))
       \/ ReadErr("reply")
    /\ UNCHANGED <<s5_config, client, target, nonSocksVars>>

BoundLenRead ==
    /\ s5_pc = "BoundLenRead"
    /\ \/ \E len \in BoundLens : ReadOk("bound_len", len, OnBoundLen(len))
       \/ ReadErr("bound_len")
    /\ UNCHANGED <<s5_config, client, target, nonSocksVars>>

\* the last read of send_connect_request; connect then returns Ok(stream)
BoundAddrRead ==
    /\ s5_pc = "BoundAddrRead"
    /\ \/ /\ s5_io' = Append(s5_io, [dir |-> "read", what |-> "bound_addr",
                                     bytes |-> <<s5_need>>, ok |-> TRUE])
          /\ s5_result' = Ok("stream")
          /\ stream' = "Returned"
          /\ s5_pc' = "Done"
          /\ s5_need' = 0
       \/ ReadErr("bound_addr")
    /\ UNCHANGED <<s5_config, client, target, nonSocksVars>>

\* The caller drops the future of connect at an await: its stream is dropped.
Cancel ==
    /\ s5_pc \notin {"Idle", "Done", "Cancelled"}
    /\ s5_pc' = "Cancelled"
    /\ s5_need' = 0
    /\ stream' = IF stream = "Open" THEN "Closed" ELSE stream
    /\ UNCHANGED <<s5_result, s5_io, s5_config, client, target, nonSocksVars>>

NextSocks ==
    \/ TcpConnect
    \/ GreetingWrite
    \/ SelectionRead
    \/ AuthWrite
    \/ AuthRead
    \/ RequestWrite
    \/ ReplyHeaderRead
    \/ BoundLenRead
    \/ BoundAddrRead
    \/ Cancel

InitClient ==
    InitNatIdle /\ InitRuleIdle /\ InitProxyIdle /\ InitSocks /\ InitConnIdle /\ InitFfiIdle /\ InitDevIdle /\ InitParseIdle

SpecSocks == InitClient /\ [][NextSocks]_vars

(***************************************************************************)
(* The connection manager: initial states and operations.                 *)
(***************************************************************************)
\* The packets handed to process_packet: for the TCP flow a SYN (flags 0x02)
\* and a SYN-ACK (0x12), a datagram of the UDP flow, and an ICMP packet.
Packets ==
    { TcpPacket("10.0.0.1", 12345, "8.8.8.8", 443, 2),
      TcpPacket("10.0.0.1", 12345, "8.8.8.8", 443, 18),
      UdpPacket("10.0.0.1", 8000, "8.8.8.8", 53),
      IcmpPacket("10.0.0.1", "8.8.8.8") }

\* The socket handles of the stack that are registered.
SocketHandles == {"h1"}

\* What a ConnectionManager operation leaves alone.
ConnFrame ==
    /\ UNCHANGED <<min_port, max_port, max_entries, now, ret>>
    /\ UNCHANGED nonConnVars

ProcessPacket(p) ==
    LET r == ConnProcessPacket(ConnMgr, p, now)
    IN  /\ total_connections < MaxConnections
        /\ r.cm.nat.next_port <= min_port + MaxPortSpan + 1
        /\ SetConn(r.cm)
        /\ cret' = [op |-> "process_packet", packet |-> p, result |-> r.result]
        /\ ConnFrame

RegisterSocket(key, handle) ==
    /\ SetConn(ConnRegisterSocket(ConnMgr, key, handle))
    /\ cret' = [op |-> "register_socket"]
    /\ ConnFrame

ConnectionEstablish(key) ==
    /\ SetConn(ConnEstablish(ConnMgr, key, now))
    /\ cret' = [op |-> "establish"]
    /\ ConnFrame

CloseConnection(key) ==
    /\ SetConn(ConnCloseConnection(ConnMgr, key, now))
    /\ cret' = [op |-> "close_connection"]
    /\ ConnFrame

RemoveConnection(key) ==
    LET r == ConnRemoveConnection(ConnMgr, key, now)
    IN  /\ SetConn(r.cm)
        /\ cret' = [op |-> "remove_connection", result |-> r.result]
        /\ ConnFrame

Cleanup ==
    /\ SetConn(ConnCleanup(ConnMgr, now))
    /\ cret' = [op |-> "cleanup"]
    /\ ConnFrame

SyncSocketStates(sockets) ==
    /\ SetConn(ConnSyncSocketStates(ConnMgr, sockets, now))
    /\ cret' = [op |-> "sync_socket_states"]
    /\ ConnFrame

NextConn ==
    \/ \E p \in Packets : ProcessPacket(p)
    \/ \E key \in Keys, handle \in SocketHandles : RegisterSocket(key, handle)
    \/ \E key \in Keys : ConnectionEstablish(key)
    \/ \E key \in Keys : CloseConnection(key)
    \/ \E key \in Keys : RemoveConnection(key)
    \/ Cleanup
    \/ \E sockets \in [SocketHandles -> TcpStates] : SyncSocketStates(sockets)
    \/ Tick

\* ConnectionManager::new
InitConnection ==
    InitNatIdle /\ InitRuleIdle /\ InitProxyIdle /\ InitSocksIdle /\ InitConnIdle /\ InitFfiIdle /\ InitDevIdle /\ InitParseIdle

SpecConn == InitConnection /\ [][NextConn]_vars

\* The stack's view of the connections: packets arrive, sockets are
\* registered and the socket states are synchronised as time passes.
NextSync ==
    \/ \E p \in Packets : ProcessPacket(p)
    \/ \E key \in Keys, handle \in SocketHandles : RegisterSocket(key, handle)
    \/ \E sockets \in [SocketHandles -> TcpStates] : SyncSocketStates(sockets)
    \/ Tick

InitSync ==
    InitNatIdle /\ InitRuleIdle /\ InitProxyIdle /\ InitSocksIdle /\ InitConnIdle /\ InitFfiIdle /\ InitDevIdle /\ InitParseIdle

SpecSync == InitSync /\ [][NextSync]_vars

(***************************************************************************)
(* The embedding layer: initial states and operations.  Every operation    *)
(* but init_core, shutdown_core and is_initialized holds the instance's    *)
(* mutex from its first line to its last; no operation panics with the     *)
(* mutex held, so that it is never poisoned.                               *)
(***************************************************************************)
\* vec![0u8; len] with the bytes of `patch` (index -> byte) written into it.
Patched(len, patch) == [i \in 1 .. len |-> IF i - 1 \in DOMAIN patch THEN patch[i - 1] ELSE 0]

\* A minimal IPv4 TCP SYN from 192.168.1.1:12345 to 8.8.8.8:443.
Ipv4TcpSyn ==
    Patched(40, 0 :> 69 @@ 3 :> 40 @@ 9 :> ProtoTcp
                @@ 12 :> 192 @@ 13 :> 168 @@ 14 :> 1 @@ 15 :> 1
                @@ 16 :> 8 @@ 17 :> 8 @@ 18 :> 8 @@ 19 :> 8
                @@ 20 :> 48 @@ 21 :> 57 @@ 22 :> 1 @@ 23 :> 187 @@ 32 :> 80 @@ 33 :> 2)

\* A minimal IPv4 UDP datagram from 10.0.0.1:8000 to 8.8.8.8:53.
Ipv4Udp ==
    Patched(28, 0 :> 69 @@ 3 :> 28 @@ 9 :> ProtoUdp
                @@ 12 :> 10 @@ 15 :> 1 @@ 16 :> 8 @@ 17 :> 8 @@ 18 :> 8 @@ 19 :> 8
                @@ 20 :> 31 @@ 21 :> 64 @@ 23 :> 53 @@ 25 :> 8)

\* An IPv4 ICMP echo request from 10.0.0.1 to 8.8.8.8.
Ipv4Icmp ==
    Patched(28, 0 :> 69 @@ 3 :> 28 @@ 9 :> PROTO_ICMP
                @@ 12 :> 10 @@ 15 :> 1 @@ 16 :> 8 @@ 17 :> 8 @@ 18 :> 8 @@ 19 :> 8
                @@ 20 :> 8)

\* The datagrams handed to process_inbound_packet and process_outbound_packet,
\* each with what ParsedPacket::parse makes of it: a TCP SYN, a UDP datagram,
\* an ICMP packet and an empty buffer.
Datagrams ==
    { [bytes |-> b, parsed |-> ParsedPacketParse(b)] :
        b \in {Ipv4TcpSyn, Ipv4Udp, Ipv4Icmp, <<>>} }

\* The connections handed to evaluate_route.
FfiRouteInputs ==
    { [domain |-> Some("a.io"), dst_ip |-> None, dst_port |-> 443, src_port |-> 0],
      [domain |-> None, dst_ip |-> Some("10.1.2.3"), dst_port |-> 80, src_port |-> 0] }

\* ParseDstIpRaw, tabulated for the inputs of the model.
DstIpMemo == { <<x.dst_ip, ParseDstIpRaw(x.dst_ip)>> : x \in FfiRouteInputs }

ParseDstIp(dst_ip) == MemoAt(DstIpMemo, dst_ip)

\* The connection that evaluate_route hands to the proxy manager.
FfiConnMemo ==
    { <<x, Conn(x.domain, ParseDstIp(x.dst_ip), x.dst_port, x.src_port)>> :
        x \in FfiRouteInputs }

\* The fields of the held instance.
KeepConn ==
    UNCHANGED <<entries, port_to_key, next_port, socket_handles, handle_to_key,
                total_bytes_sent, total_bytes_received, total_connections>>

KeepProxy == UNCHANGED <<config, rules, default_action, stats, enabled, route_calls>>

\* What no operation of the embedding layer touches.
FfiFrame ==
    UNCHANGED <<min_port, max_port, max_entries, now, ret, rret, pret, cret, socksVars, devVars, parseVars>>

\* The call gets past `CORE_INSTANCE.get()?` and `core.lock()`: it returns
\* NotInitialized before the lock, or finds the mutex free.
PassesLock == GetCore(core).ok => MutexFree(core_mutex)

\* A call returns `result`; a value returned without a Result is recorded as
\* Ok(value).
FfiReturn(op, result) ==
    /\ ffi_calls < MaxFfiCalls
    /\ ffi_calls' = ffi_calls + 1
    /\ fret' = [op |-> op, result |-> result]
    /\ UNCHANGED <<core, inflight, inits_ok, inits_failed, shutdown_logged>>
    /\ UNCHANGED <<core_mutex, inbound, linearized>>
    /\ FfiFrame

\* init_core up to VoyageCore::new: the caller has built its VoyageCore.
InitCoreBuild(c) ==
    /\ ffi_calls < MaxFfiCalls
    /\ ffi_calls' = ffi_calls + 1
    /\ inflight' = [inflight EXCEPT ![c] = @ + 1]
    /\ UNCHANGED <<core, inits_ok, inits_failed, shutdown_logged, fret>>
    /\ UNCHANGED <<core_mutex, inbound, linearized>>
    /\ KeepConn /\ KeepProxy /\ FfiFrame

\* init_core from CORE_INSTANCE.set to its return.
InitCoreSet(c) ==
    LET r == OnceLockSet(core, [config |-> c])
    IN  /\ inflight[c] > 0
        /\ inflight' = [inflight EXCEPT ![c] = @ - 1]
        /\ core' = r.cell
        /\ fret' = [op |-> "init_core", result |-> r.result]
        /\ IF r.result.ok
           THEN /\ SetProxy(VoyageCoreNew(r.cell.v.config).proxy_manager)
                /\ route_calls' = 0
                /\ SetConn(VoyageCoreNew(r.cell.v.config).conn_manager)
                /\ inits_ok' = inits_ok + 1
                /\ UNCHANGED inits_failed
           ELSE /\ KeepProxy /\ KeepConn
                /\ inits_failed' = inits_failed + 1
                /\ UNCHANGED inits_ok
        /\ UNCHANGED <<shutdown_logged, ffi_calls, core_mutex, inbound, linearized>>
        /\ FfiFrame

ShutdownCore ==
    /\ ffi_calls < MaxFfiCalls
    /\ ffi_calls' = ffi_calls + 1
    /\ shutdown_logged' = TRUE
    /\ fret' = [op |-> "shutdown_core", result |-> Ok("unit")]
    /\ UNCHANGED <<core, inflight, inits_ok, inits_failed, core_mutex, inbound, linearized>>
    /\ KeepConn /\ KeepProxy /\ FfiFrame

IsInitialized ==
    /\ FfiReturn("is_initialized", Ok(core.some))
    /\ KeepConn /\ KeepProxy

\* process_inbound_packet, its whole body under the mutex.
FfiProcessInboundPacket(d) ==
    /\ PassesLock
    /\ IF ~GetCore(core).ok
       THEN FfiReturn("process_inbound_packet", GetCore(core)) /\ KeepConn /\ KeepProxy
       ELSE IF ~d.parsed.ok
       THEN FfiReturn("process_inbound_packet", d.parsed) /\ KeepConn /\ KeepProxy
       ELSE \E r \in {ConnProcessPacket(ConnMgr, d.parsed.v, now)} :
                /\ FfiReturn("process_inbound_packet",
                             IF r.result.ok THEN Ok(d.bytes) ELSE r.result)
                /\ SetConn(r.cm)
                /\ KeepProxy

\* The threads inside a process_inbound_packet call.
InboundPending == { t \in InboundThreads : inbound[t].pc # "idle" }

\* The process_inbound_packet call of thread `t` returns `result`, with the
\* mutex released.
InboundReturn(t, result) ==
    /\ ffi_calls' = ffi_calls + 1
    /\ fret' = [op |-> "process_inbound_packet", result |-> result]
    /\ inbound' = [inbound EXCEPT ![t] = [pc |-> "idle"]]
    /\ core_mutex' = "none"
    /\ UNCHANGED <<core, inflight, inits_ok, inits_failed, shutdown_logged>>
    /\ KeepProxy /\ FfiFrame

\* process_inbound_packet of thread `t` up to core.lock(): the call returns
\* NotInitialized, or waits for the mutex.
ProcessInboundCall(t, d) ==
    /\ inbound[t].pc = "idle"
    /\ IF ~GetCore(core).ok
       THEN FfiReturn("process_inbound_packet", GetCore(core)) /\ KeepConn /\ KeepProxy
       ELSE /\ ffi_calls + Cardinality(InboundPending) < MaxFfiCalls
            /\ inbound' = [inbound EXCEPT ![t] = [pc |-> "lock", d |-> d]]
            /\ UNCHANGED <<core, inflight, inits_ok, inits_failed, shutdown_logged,
                           ffi_calls, fret, core_mutex, linearized>>
            /\ KeepConn /\ KeepProxy /\ FfiFrame

\* process_inbound_packet of thread `t` from the return of core.lock() to the
\* key lookup of get_or_create: the call returns an error, or stands inside
\* get_or_create knowing whether the table has the key, with the mutex held.
ProcessInboundEnter(t) ==
    /\ inbound[t].pc = "lock"
    /\ MutexFree(core_mutex)
    /\ \E d \in {inbound[t].d} :
           IF ~d.parsed.ok
           THEN InboundReturn(t, d.parsed) /\ KeepConn /\ UNCHANGED linearized
           ELSE IF ~ToNatKey(d.parsed.v).some
           THEN /\ InboundReturn(t, ConnProcessPacket(ConnMgr, d.parsed.v, now).result)
                /\ KeepConn /\ UNCHANGED linearized
           ELSE /\ core_mutex' = t
                /\ inbound' = [inbound EXCEPT ![t] =
                                  [pc |-> "get_or_create", d |-> d,
                                   present |-> ToNatKey(d.parsed.v).v \in DOMAIN entries]]
                /\ linearized' = Append(linearized,
                                        [d |-> d, waiting |-> InboundPending \ {t}])
                /\ UNCHANGED <<core, inflight, inits_ok, inits_failed, shutdown_logged,
                               ffi_calls, fret>>
                /\ KeepConn /\ KeepProxy /\ FfiFrame

\* process_inbound_packet of thread `t` from the key lookup of get_or_create
\* to its return, which releases the mutex.
ProcessInboundFinish(t) ==
    /\ inbound[t].pc = "get_or_create"
    /\ \E key \in {ToNatKey(inbound[t].d.parsed.v).v} :
       \E got \in {IF inbound[t].present
                   THEN GetExisting(NatMgr, key)
                   ELSE NatCreate(NatMgr, key, now)} :
       \E r \in {ConnAfterGetOrCreate(ConnMgr, inbound[t].d.parsed.v, key, got, now)} :
           /\ InboundReturn(t, IF r.result.ok THEN Ok(inbound[t].d.bytes) ELSE r.result)
           /\ SetConn(r.cm)
    /\ UNCHANGED linearized

FfiProcessOutboundPacket(d) ==
    /\ PassesLock
    /\ FfiReturn("process_outbound_packet",
                 IF GetCore(core).ok THEN Ok(d.bytes) ELSE GetCore(core))
    /\ KeepConn /\ KeepProxy

FfiLoadRules(text) ==
    /\ PassesLock
    /\ IF ~GetCore(core).ok
       THEN FfiReturn("load_rules", GetCore(core)) /\ KeepConn /\ KeepProxy
       ELSE \E r \in {ProxyLoadRules(ProxyMgr, text)} :
                /\ ProxyRuleCount(r.pm) <= MaxRules
                /\ FfiReturn("load_rules", r.result)
                /\ SetProxy(r.pm)
                /\ UNCHANGED route_calls
                /\ KeepConn

FfiClearRules ==
    /\ PassesLock
    /\ IF ~GetCore(core).ok
       THEN FfiReturn("clear_rules", GetCore(core)) /\ KeepConn /\ KeepProxy
       ELSE /\ FfiReturn("clear_rules", Ok("unit"))
            /\ SetProxy(ProxyClearRules(ProxyMgr))
            /\ UNCHANGED route_calls
            /\ KeepConn

FfiRuleCount ==
    /\ PassesLock
    /\ FfiReturn("rule_count",
                 IF GetCore(core).ok THEN Ok(ProxyRuleCount(ProxyMgr)) ELSE GetCore(core))
    /\ KeepConn /\ KeepProxy

FfiEvaluateRoute(x) ==
    /\ PassesLock
    /\ IF ~GetCore(core).ok
       THEN FfiReturn("evaluate_route", GetCore(core)) /\ KeepConn /\ KeepProxy
       ELSE \E y \in {MemoAt(FfiConnMemo, x)} :
            \E r \in {ProxyEvaluateRoute(ProxyMgr, y)} :
                /\ FfiReturn("evaluate_route", Ok(r.decision.action))
                /\ SetProxy(r.pm)
                /\ route_calls' = route_calls + 1
                /\ KeepConn

FfiGetStats ==
    /\ PassesLock
    /\ FfiReturn("get_stats", IF GetCore(core).ok THEN Ok(CoreStats(ConnMgr)) ELSE GetCore(core))
    /\ KeepConn /\ KeepProxy

FfiAddBytesSent(bytes) ==
    /\ PassesLock
    /\ IF ~GetCore(core).ok
       THEN FfiReturn("add_bytes_sent", GetCore(core)) /\ KeepConn /\ KeepProxy
       ELSE /\ FfiReturn("add_bytes_sent", Ok("unit"))
            /\ SetProxy(ProxyAddBytesSent(ProxyMgr, bytes))
            /\ UNCHANGED route_calls
            /\ KeepConn

FfiAddBytesReceived(bytes) ==
    /\ PassesLock
    /\ IF ~GetCore(core).ok
       THEN FfiReturn("add_bytes_received", GetCore(core)) /\ KeepConn /\ KeepProxy
       ELSE /\ FfiReturn("add_bytes_received", Ok("unit"))
            /\ SetProxy(ProxyAddBytesReceived(ProxyMgr, bytes))
            /\ UNCHANGED route_calls
            /\ KeepConn

EnableProxy ==
    /\ PassesLock
    /\ IF ~GetCore(core).ok
       THEN FfiReturn("enable_proxy", GetCore(core)) /\ KeepConn /\ KeepProxy
       ELSE /\ FfiReturn("enable_proxy", Ok("unit"))
            /\ SetProxy(ProxyEnable(ProxyMgr))
            /\ UNCHANGED route_calls
            /\ KeepConn

DisableProxy ==
    /\ PassesLock
    /\ IF ~GetCore(core).ok
       THEN FfiReturn("disable_proxy", GetCore(core)) /\ KeepConn /\ KeepProxy
       ELSE /\ FfiReturn("disable_proxy", Ok("unit"))
            /\ SetProxy(ProxyDisable(ProxyMgr))
            /\ UNCHANGED route_calls
            /\ KeepConn

IsProxyEnabled ==
    /\ PassesLock
    /\ FfiReturn("is_proxy_enabled",
                 IF GetCore(core).ok THEN Ok(ProxyIsEnabled(ProxyMgr)) ELSE GetCore(core))
    /\ KeepConn /\ KeepProxy

NextFfi ==
    \/ \E c \in ProxyConfigs : InitCoreBuild(c)
    \/ \E c \in ProxyConfigs : InitCoreSet(c)
    \/ ShutdownCore
    \/ IsInitialized
    \/ \E d \in Datagrams : FfiProcessInboundPacket(d)
    \/ \E d \in Datagrams : FfiProcessOutboundPacket(d)
    \/ \E text \in ProxyRuleTexts : FfiLoadRules(text)
    \/ FfiClearRules
    \/ FfiRuleCount
    \/ \E x \in FfiRouteInputs : FfiEvaluateRoute(x)
    \/ FfiGetStats
    \/ \E bytes \in ByteCounts : FfiAddBytesSent(bytes)
    \/ \E bytes \in ByteCounts : FfiAddBytesReceived(bytes)
    \/ EnableProxy
    \/ DisableProxy
    \/ IsProxyEnabled

\* The process has started and CORE_INSTANCE is empty.
InitFfi ==
    InitNatIdle /\ InitRuleIdle /\ InitProxyIdle /\ InitSocksIdle /\ InitConnIdle /\ InitFfiIdle /\ InitDevIdle /\ InitParseIdle

SpecFfi == InitFfi /\ [][NextFfi]_vars

(***************************************************************************)
(* The embedding layer with process_inbound_packet called from several     *)
(* threads: a call stands before core.lock(), or inside get_or_create      *)
(* with the mutex held.                                                    *)
(***************************************************************************)
NextInbound ==
    \/ \E c \in ProxyConfigs : InitCoreBuild(c)
    \/ \E c \in ProxyConfigs : InitCoreSet(c)
    \/ \E t \in InboundThreads, d \in Datagrams : ProcessInboundCall(t, d)
    \/ \E t \in InboundThreads : ProcessInboundEnter(t)
    \/ \E t \in InboundThreads : ProcessInboundFinish(t)
    \/ \E d \in Datagrams : FfiProcessOutboundPacket(d)
    \/ FfiGetStats

\* The process has started and CORE_INSTANCE is empty.
InitInbound ==
    InitNatIdle /\ InitRuleIdle /\ InitProxyIdle /\ InitSocksIdle /\ InitConnIdle /\ InitFfiIdle /\ InitDevIdle /\ InitParseIdle

SpecInbound == InitInbound /\ [][NextInbound]_vars

(***************************************************************************)
(* The virtual TUN device: initial states and operations.                  *)
(***************************************************************************)
\* The n-th packet that producer `t` injects.
Packet(t, n) == <<t, n>>

\* The lengths asked of VirtualTxToken::consume and the bytes its closure writes.
TxLens == {1, 2}
TxBytes == {1}

DevFrame == UNCHANGED nonDevVars

\* inject_packet up to rx_queue.lock(): the thread holds the mutex.
InjectLock(t) ==
    /\ rx_guard = "none"
    /\ produced[t] < MaxInjects
    /\ rx_guard' = t
    /\ UNCHANGED <<rx_queue, tx_queue, produced, received, tx_tokens, transmitted, dret>>
    /\ DevFrame

\* inject_packet from push_back to the release of the mutex.
InjectPush(t) ==
    /\ rx_guard = t
    /\ rx_queue' = PushBack(rx_queue, Packet(t, produced[t] + 1))
    /\ produced' = [produced EXCEPT ![t] = @ + 1]
    /\ rx_guard' = "none"
    /\ dret' = [op |-> "inject_packet"]
    /\ UNCHANGED <<tx_queue, received, tx_tokens, transmitted>>
    /\ DevFrame

\* Device::receive
Receive ==
    \E r \in {PopFront(rx_queue)} :
        /\ rx_guard = "none"
        /\ rx_queue' = r.queue
        /\ IF r.item.some
           THEN /\ received' = Append(received, r.item.v)
                /\ tx_tokens' = tx_tokens + 1
           ELSE UNCHANGED <<received, tx_tokens>>
        /\ dret' = [op |-> "receive", token |-> r.item]
        /\ UNCHANGED <<tx_queue, rx_guard, produced, transmitted>>
        /\ DevFrame

\* Device::transmit
Transmit ==
    /\ tx_tokens + transmitted < MaxInjects
    /\ tx_tokens' = tx_tokens + 1
    /\ dret' = [op |-> "transmit"]
    /\ UNCHANGED <<rx_queue, tx_queue, rx_guard, produced, received, transmitted>>
    /\ DevFrame

\* VirtualTxToken::consume(len, f), f writing byte `b`
TxConsume(len, b) ==
    /\ tx_tokens > 0
    /\ transmitted < MaxInjects
    /\ tx_queue' = PushBack(tx_queue, Filled(Zeroed(len), b))
    /\ tx_tokens' = tx_tokens - 1
    /\ transmitted' = transmitted + 1
    /\ dret' = [op |-> "consume"]
    /\ UNCHANGED <<rx_queue, rx_guard, produced, received>>
    /\ DevFrame

\* VirtualTunDevice::take_packets
TakePackets ==
    \E r \in {Drain(tx_queue)} :
        /\ tx_queue' = r.queue
        /\ dret' = [op |-> "take_packets", packets |-> r.items]
        /\ UNCHANGED <<rx_queue, rx_guard, produced, received, tx_tokens, transmitted>>
        /\ DevFrame

\* VirtualTunDevice::has_rx_packets
HasRxPackets ==
    /\ rx_guard = "none"
    /\ dret' = [op |-> "has_rx_packets", nonempty |-> rx_queue # <<>>]
    /\ UNCHANGED <<rx_queue, tx_queue, rx_guard, produced, received, tx_tokens, transmitted>>
    /\ DevFrame

\* VirtualTunDevice::pending_tx_count
PendingTxCount ==
    /\ dret' = [op |-> "pending_tx_count", count |-> Len(tx_queue)]
    /\ UNCHANGED <<rx_queue, tx_queue, rx_guard, produced, received, tx_tokens, transmitted>>
    /\ DevFrame

NextDev ==
    \/ \E t \in Producers : InjectLock(t)
    \/ \E t \in Producers : InjectPush(t)
    \/ Receive
    \/ Transmit
    \/ \E len \in TxLens, b \in TxBytes : TxConsume(len, b)
    \/ TakePackets
    \/ HasRxPackets
    \/ PendingTxCount

\* VirtualTunDevice::new
InitDevice ==
    InitNatIdle /\ InitRuleIdle /\ InitProxyIdle /\ InitSocksIdle /\ InitConnIdle /\ InitFfiIdle /\ InitDevIdle /\ InitParseIdle

SpecDev == InitDevice /\ [][NextDev]_vars

(***************************************************************************)
(* The packet parser: initial states and operations.                       *)
(***************************************************************************)
\* The fields the buffers vary: the version nibble, the IHL nibble, the
\* protocol number and the TCP data-offset nibble.
Versions == {4, 5, 6}
HeaderWords == {4, 5, 6, 15}
ProtoNumbers == {ProtoTcp, ProtoUdp, PROTO_ICMP, 99}
DataOffsetWords == {4, 5, 6}

\* A buffer of `len` bytes laid out as an IP packet: byte 0 holds version and
\* IHL, bytes 6 (IPv6 next header) and 9 (IPv4 protocol) the protocol number,
\* bytes 12 and 13 of the transport header the data offset and the SYN flag;
\* every other byte is 1.
PacketBytes(version, ihl, proto, doff, len) ==
    LET header_len == IF version = 6 THEN IPV6_HEADER_LEN ELSE ihl * 4
    IN  [i \in 1 .. len |->
            CASE i - 1 = 0 -> version * 16 + ihl
              [] i - 1 = header_len + 12 -> doff * 16
              [] i - 1 = header_len + 13 -> 2
              [] i - 1 \in {6, 9} -> proto
              [] OTHER -> 1]

\* The buffers handed to ParsedPacket::parse.
PacketInputs ==
    { PacketBytes(version, ihl, proto, doff, len) :
        version \in Versions, ihl \in HeaderWords, proto \in ProtoNumbers,
        doff \in DataOffsetWords, len \in 0 .. MaxPacketLen }

\* ParsedPacket::parse(&pkt_data)
Parse ==
    /\ pkt_result = None
    /\ pkt_result' = Some(ParsedPacketParse(pkt_data))
    /\ UNCHANGED pkt_data
    /\ UNCHANGED nonParseVars

NextParse == Parse

\* A buffer has arrived and has not been parsed.
InitParse ==
    /\ InitNatIdle /\ InitRuleIdle /\ InitProxyIdle /\ InitSocksIdle
    /\ InitConnIdle /\ InitFfiIdle /\ InitDevIdle
    /\ pkt_data \in PacketInputs
    /\ pkt_result = None

SpecParse == InitParse /\ [][NextParse]_vars

(***************************************************************************)
(* TcpFlags on every flags byte: pkt_data holds the byte, pkt_result the   *)
(* TcpFlags value and what was computed from it.                           *)
(***************************************************************************)
FlagBytes == 0 .. 255

InitFlags ==
    /\ InitNatIdle /\ InitRuleIdle /\ InitProxyIdle /\ InitSocksIdle
    /\ InitConnIdle /\ InitFfiIdle /\ InitDevIdle
    /\ pkt_data \in { <<f>> : f \in FlagBytes }
    /\ pkt_result = None

FromByte ==
    /\ pkt_result = None
    /\ pkt_result' = Some([op |-> "from_byte", flags |-> TcpFlagsFromByte(pkt_data[1])])
    /\ UNCHANGED <<pkt_data, nonParseVars>>

ToByte ==
    /\ pkt_result.some
    /\ pkt_result' = Some([op |-> "to_byte", flags |-> pkt_result.v.flags,
                           byte |-> TcpFlagsToByte(pkt_result.v.flags)])
    /\ UNCHANGED <<pkt_data, nonParseVars>>

Classify ==
    /\ pkt_result.some
    /\ pkt_result' = Some([op |-> "classify", flags |-> pkt_result.v.flags,
                           is_syn |-> IsSyn(pkt_result.v.flags),
                           is_syn_ack |-> IsSynAck(pkt_result.v.flags),
                           is_fin |-> IsFin(pkt_result.v.flags),
                           is_rst |-> IsRst(pkt_result.v.flags)])
    /\ UNCHANGED <<pkt_data, nonParseVars>>

NextFlags == FromByte \/ ToByte \/ Classify

SpecFlags == InitFlags /\ [][NextFlags]_vars

(***************************************************************************)
(* Claims about the NAT table.                                             *)
(***************************************************************************)
\* C1: any two distinct live entries have different local ports, also after
\* ports were freed and the cursor wrapped around.
C1_UniquePorts ==
    \A a \in DOMAIN entries : \A b \in DOMAIN entries :
        a # b => entries[a].local_port # entries[b].local_port

\* Two live entries, one on max_port, and the cursor just past min_port: the
\* port min_port was handed out after the cursor wrapped.
C1_Witness ==
    /\ Cardinality(DOMAIN entries) = 2
    /\ min_port < max_port
    /\ next_port = min_port + 1
    /\ \E k \in DOMAIN entries : entries[k].local_port = max_port
    /\ \E k \in DOMAIN entries : entries[k].local_port = min_port

\* C2: the reverse index and the forward index agree exactly:
\* port_to_key[p] = k iff entries has k with local_port p.
C2_IndexAgree ==
    /\ \A p \in DOMAIN port_to_key :
          /\ port_to_key[p] \in DOMAIN entries
          /\ entries[port_to_key[p]].local_port = p
    /\ \A k \in DOMAIN entries :
          /\ entries[k].local_port \in DOMAIN port_to_key
          /\ port_to_key[entries[k].local_port] = k

\* One entry is left, on max_port: the entry that held min_port was removed.
C2_Witness ==
    /\ min_port < max_port
    /\ Cardinality(DOMAIN entries) = 1
    /\ DOMAIN port_to_key = {max_port}

\* C3: the number of live entries never exceeds max_entries.
C3_AtMostMaxEntries == Cardinality(DOMAIN entries) <= max_entries

\* The table is at capacity, ports are left, and get_or_create was refused.
C3_Witness ==
    /\ ret = RetFull
    /\ Cardinality(DOMAIN entries) = max_entries
    /\ Cardinality(DOMAIN port_to_key) < max_port - min_port + 1

\* C4: whenever get_or_create returns NatTableFull, the table holds no entry
\* that is Closed or timed out.
C4_FullOnlyAfterEviction ==
    [][\A key \in Keys :
          (GetOrCreate(key) /\ ret' = RetFull) => ExpiredKeys(NatMgr', now') = {}]_vars

\* C5: once an entry is Closed, a step either removes it or leaves it Closed.
C5_ClosedIsFinal ==
    [][\A k \in DOMAIN entries :
          entries[k].state = "Closed" =>
              (k \notin DOMAIN entries' \/ entries'[k].state = "Closed")]_vars

\* A call that touches an existing entry: a state transition or byte accounting.
TouchingCall(k) ==
    \/ Establish(k)
    \/ StartClose(k)
    \/ Close(k)
    \/ \E bytes \in 1 .. MaxBytes : AddBytesSent(k, bytes)
    \/ \E bytes \in 1 .. MaxBytes : AddBytesReceived(k, bytes)

\* C6: last_seen of a live entry never decreases, and every state transition
\* and byte-accounting call on an existing key sets it to the current time.
C6_LastSeen ==
    [][/\ \A k \in DOMAIN entries \cap DOMAIN entries' :
             entries'[k].last_seen >= entries[k].last_seen
       /\ \A k \in DOMAIN entries :
             \/ k \in DOMAIN entries' /\ entries'[k].last_seen = now'
             \/ ~TouchingCall(k)]_vars

\* An entry created at time 0 (a second one still carries that time stamp)
\* was closed after the clock advanced, with bytes accounted.
C6_Witness ==
    /\ now > 0
    /\ \E k \in DOMAIN entries :
          /\ entries[k].state = "FinWait"
          /\ entries[k].last_seen = now
    /\ \E k \in DOMAIN entries :
          /\ entries[k].bytes_sent > 0
          /\ entries[k].last_seen = now

\* C7: get_or_create on a present key returns that entry's local_port and
\* leaves the entries, the reverse index and the cursor unchanged.
C7_GetExistingIdempotent ==
    [][\A key \in DOMAIN entries :
          GetOrCreate(key) =>
              /\ ret' = RetOk(entries[key].local_port)
              /\ UNCHANGED <<entries, port_to_key, next_port>>]_vars

\* get_or_create returned the port of an entry that is Closed, while the
\* other port is in use too.
C7_Witness ==
    /\ ret.tag = "Ok"
    /\ Cardinality(DOMAIN entries) = 2
    /\ \E k \in DOMAIN entries :
          /\ entries[k].state = "Closed"
          /\ entries[k].local_port = ret.local_port
          /\ entries[k].bytes_received > 0

\* C27: for a table configured with min_port <= max_port, every live
\* entry's local_port lies in [min_port, max_port] in every reachable state.
C27_PortsInRange ==
    min_port <= max_port =>
        \A k \in DOMAIN entries :
            min_port <= entries[k].local_port /\ entries[k].local_port <= max_port

\* The only live entry holds max_port and the cursor has wrapped around to
\* min_port: the entry on min_port has been removed.
C27_Witness ==
    /\ min_port < max_port
    /\ Cardinality(DOMAIN entries) = 1
    /\ \E k \in DOMAIN entries : entries[k].local_port = max_port
    /\ next_port = min_port

\* C28: every NatManager mutator called with a key that has no entry
\* (establish, add_bytes_sent, add_bytes_received, remove) reports no error
\* and leaves entries, the reverse index, the cursor and the byte totals
\* unchanged; ConnectionManager::establish and close_connection with such a
\* key leave the whole manager unchanged.
C28_UnknownKeyNoOp ==
    [][\A key \in Keys : key \notin DOMAIN entries =>
          /\ ( \/ ret'.tag = "Bool" /\ Establish(key)
               \/ ret'.tag = "Option" /\ Remove(key)
               \/ /\ ret'.tag = "Unit"
                  /\ \E bytes \in 1 .. MaxBytes :
                        AddBytesSent(key, bytes) \/ AddBytesReceived(key, bytes) )
             => /\ UNCHANGED <<entries, port_to_key, next_port>>
                /\ NatTotalBytesSent(NatMgr') = NatTotalBytesSent(NatMgr)
                /\ NatTotalBytesReceived(NatMgr') = NatTotalBytesReceived(NatMgr)
                /\ ret' \in {RetBool(FALSE), RetOption(None), RetUnit}
          /\ ConnEstablish(ConnMgr, key, now) = ConnMgr
          /\ ConnCloseConnection(ConnMgr, key, now) = ConnMgr]_vars

\* establish has just returned false for a key without an entry, while the
\* table holds an entry of another flow that has counted bytes.
C28_Witness ==
    /\ ret = RetBool(FALSE)
    /\ \E k \in DOMAIN entries : entries[k].bytes_sent > 0

\* C29: cleanup_expired removes exactly the entries whose state is Closed or
\* whose idle time now - last_seen exceeds the timeout of their protocol
\* (300 s for TCP, 60 s for UDP), deletes the reverse-index entry of each
\* removed entry, and leaves every other entry unchanged.
C29_CleanupExact ==
    [][(ret' = RetUnitOf("cleanup_expired") /\ CleanupExpired) =>
          LET gone == { k \in DOMAIN entries :
                          \/ entries[k].state = "Closed"
                          \/ now - entries[k].last_seen > (IF IsTcp(k) THEN 300 ELSE 60) }
              ports == { entries[k].local_port : k \in gone }
          IN  /\ DOMAIN entries' = DOMAIN entries \ gone
              /\ \A k \in DOMAIN entries' : entries'[k] = entries[k]
              /\ DOMAIN port_to_key' = DOMAIN port_to_key \ ports
              /\ \A q \in DOMAIN port_to_key' : port_to_key'[q] = port_to_key[q]
              /\ next_port' = next_port]_vars

\* cleanup_expired has just run at a time when the UDP entry it kept has been
\* idle for exactly its timeout and is the only entry left of the two ports
\* handed out.
C29_Witness ==
    /\ ret = RetUnitOf("cleanup_expired")
    /\ Cardinality(DOMAIN entries) = 1
    /\ \E k \in DOMAIN entries :
          ~IsTcp(k) /\ now - entries[k].last_seen = 60 /\ entries[k].state # "Closed"

\* The i-th port of the cyclic order next_port, next_port + 1, ..., max_port,
\* min_port, ...
CyclicPort(i) == min_port + ((next_port - min_port + i) % (max_port - min_port + 1))

\* C31: port allocation picks the first port absent from the reverse index
\* in the cyclic order next_port, next_port + 1, ..., max_port, min_port, ...,
\* and leaves the cursor one past the chosen port (min_port when the chosen
\* port is max_port); when every port of [min_port, max_port] is in use it
\* fails with NatTableFull.
C31_FirstFreeCyclic ==
    [][\A key \in Keys \ DOMAIN entries :
          LET cleaned == IF TableFull(Cardinality(DOMAIN entries))
                         THEN NatCleanupExpired(NatMgr, now) ELSE NatMgr
              free == { i \in 0 .. max_port - min_port :
                          CyclicPort(i) \notin DOMAIN cleaned.port_to_key }
              first == CHOOSE i \in free : \A j \in free : i <= j
              port == CyclicPort(first)
          IN  ( /\ min_port <= max_port
                /\ ~TableFull(Cardinality(DOMAIN cleaned.entries))
                /\ ret'.tag \in {"Ok", "Err"}
                /\ GetOrCreate(key) )
              => IF free = {}
                 THEN ret' = RetFull
                 ELSE /\ ret' = RetOk(port)
                      /\ entries'[key].local_port = port
                      /\ port_to_key'[port] = key
                      /\ next_port' = IF port = max_port THEN min_port ELSE port + 1]_vars

\* get_or_create has just handed out min_port with the cursor at max_port's
\* entry behind it: the entry on max_port is older, and the cursor stands one
\* past min_port.
C31_Witness ==
    /\ min_port < max_port
    /\ ret = RetOk(min_port)
    /\ next_port = min_port + 1
    /\ now > 0
    /\ \E k1, k2 \in DOMAIN entries :
          /\ entries[k1].local_port = min_port /\ entries[k1].last_seen = now
          /\ entries[k2].local_port = max_port /\ entries[k2].last_seen < now

\* C37: a get_or_create call that returns NatTableFull leaves the table
\* exactly as it was before the call: the same entries, the same reverse
\* index and the same next_port cursor, so that a retry after an unrelated
\* remove succeeds and uniqueness is kept.
C37_FullLeavesTable ==
    [][\A key \in AllocKeys :
          (ret' = RetFull /\ GetOrCreate(key)) =>
              /\ UNCHANGED <<entries, port_to_key, next_port>>
              /\ \A k \in DOMAIN entries' :
                    LET retry == NatGetOrCreate(NatRemove(NatMgr', k), key, now')
                    IN  /\ retry.ret.tag = "Ok"
                        /\ \A k1, k2 \in DOMAIN retry.nat.entries :
                              k1 # k2 => retry.nat.entries[k1].local_port
                                           # retry.nat.entries[k2].local_port]_vars

\* get_or_create was refused because both ports of the range are taken, with
\* room left in the table: the probe went once around the range, from
\* max_port over min_port, and the cursor is back at max_port.
C37_Witness ==
    /\ ret = RetFull
    /\ min_port < max_port
    /\ Cardinality(DOMAIN entries) < max_entries
    /\ DOMAIN port_to_key = min_port .. max_port
    /\ next_port = max_port

\* C40: for min_port <= max_port, allocate_port always terminates after at
\* most (max_port - min_port + 1) probes, the next_port cursor stays within
\* [min_port, max_port] in every reachable state, and advancing the cursor
\* never overflows 16 bits, including when max_port = 65535.
C40_AllocationBounded ==
    min_port <= max_port =>
        /\ ProbeCount(next_port, next_port, port_to_key, 1) <= max_port - min_port + 1
        /\ next_port \in min_port .. max_port
        /\ \A p \in min_port .. max_port :
              AdvanceCursor(p) \in min_port .. max_port /\ AdvanceCursor(p) <= 65535

\* With max_port = 65535 both ports of the range are taken and an allocation
\* has just failed after probing each of them once, starting at 65535.
C40_Witness ==
    /\ ret = RetFull
    /\ max_port = 65535
    /\ min_port < max_port
    /\ next_port = max_port
    /\ ProbeCount(next_port, next_port, port_to_key, 1) = max_port - min_port + 1
    /\ Cardinality(DOMAIN entries) < max_entries

\* The rules of the list that match a connection, by position.
Hits(rs, x) ==
    { j \in 1 .. Len(rs) : RuleMatches(rs[j], x.domain, x.ip, x.dst_port, x.src_port) }

\* The action of the first matching rule, the default when none matches.
FirstMatchAction(rs, default, x) ==
    IF Hits(rs, x) = {} THEN default
    ELSE rs[CHOOSE j \in Hits(rs, x) : \A k \in Hits(rs, x) : j <= k].action

\* C8: for every rule list, default action and connection, evaluate returns
\* the action of the first rule in insertion order that matches, and the
\* default action when no rule matches; a later matching rule never
\* overrides an earlier one.
C8_FirstMatchWins ==
    /\ \A x \in Inputs :
          RuleEvaluate(rules, default_action, x.domain, x.ip, x.dst_port, x.src_port)
              = FirstMatchAction(rules, default_action, x)
    /\ rret.op = "evaluate" =>
          rret.result = FirstMatchAction(rules, default_action, rret.input)

\* evaluate has answered with the first rule's action although the second
\* rule matches too and carries another action.
C8_Witness ==
    /\ rret.op = "evaluate"
    /\ Len(rules) = 2
    /\ Hits(rules, rret.input) = {1, 2}
    /\ rules[1].action # rules[2].action
    /\ rret.result = rules[1].action
    /\ rret.result # default_action

\* The rules a configuration text yields, in the order of its lines.
RulesOfText(text) ==
    [i \in 1 .. Len(ConfigLines(text)) |-> ParseRuleLine(ConfigLines(text)[i]).v]

\* C9: a successful load_from_config appends: the rules already in the
\* engine stay in place and in order, the newly parsed rules follow them in
\* the order of their lines, and the returned count equals the growth of the
\* rule list; only clear removes rules.
C9_LoadAppends ==
    [][ /\ \A text \in ConfigTexts :
              (LoadFromConfig(text) /\ rret'.result.ok) =>
                  /\ Len(rules') = Len(rules) + rret'.result.v
                  /\ SubSeq(rules', 1, Len(rules)) = rules
                  /\ SubSeq(rules', Len(rules) + 1, Len(rules')) = RulesOfText(text)
        /\ \/ Clear
           \/ /\ Len(rules') >= Len(rules)
              /\ SubSeq(rules', 1, Len(rules)) = rules ]_vars

\* A two-line text has been loaded into an engine that held a rule: the
\* old rule is first and the two new rules follow in line order.
C9_Witness ==
    /\ rret.op = "load_from_config"
    /\ rret.result.ok
    /\ rret.result.v = 2
    /\ Len(rules) = 3
    /\ rules[1] # rules[2]
    /\ rules[2] # rules[3]
    /\ SubSeq(rules, 2, 3) = RulesOfText(rret.config)

\* C10: when load_from_config returns an error, the rule list is the same
\* as before the call.
C10_ErrorLeavesRules ==
    [][ \A text \in ConfigTexts :
            (LoadFromConfig(text) /\ ~rret'.result.ok) => rules' = rules ]_vars

\* The eight bits of an octet, most significant first.
OctetBits(o) == [i \in 1 .. 8 |-> (o \div Pow2(8 - i)) % 2]

\* The 32 bits of an IPv4 address, most significant first.
Ipv4Bits(addr) ==
    OctetBits(addr[1]) \o OctetBits(addr[2]) \o OctetBits(addr[3]) \o OctetBits(addr[4])

\* The rule list holds an IP-CIDR rule at position i.
IsCidrRule(i) == rules[i].rule_type.tag = "IpCidr"

\* C33: an IP-CIDR rule a.b.c.d/p matches every IPv4 address when p = 0,
\* matches an IPv4 address for p in 1 .. 32 exactly when the top p bits of
\* the address equal those of a.b.c.d (the whole address for p = 32), and
\* never matches an IPv6 address or a connection without an address.
C33_CidrMatch ==
    \A i \in 1 .. Len(rules) : \A x \in CidrInputs :
        (IsCidrRule(i) /\ rules[i].rule_type.prefix_len \in 0 .. 32) =>
            LET t == rules[i].rule_type
                p == t.prefix_len
                hit == RuleMatches(rules[i], x.domain, x.ip, x.dst_port, x.src_port)
            IN  /\ (~x.ip.some \/ x.ip.v.tag # "V4") => ~hit
                /\ (x.ip.some /\ x.ip.v.tag = "V4") =>
                      /\ p = 0 => hit
                      /\ p \in 1 .. 32 =>
                            (hit <=> SubSeq(Ipv4Bits(x.ip.v.addr), 1, p)
                                        = SubSeq(Ipv4Bits(t.network), 1, p))
                      /\ p = 32 => (hit <=> x.ip.v.addr = t.network)
                /\ (rret.op = "evaluate" /\ rret.input = x /\ Len(rules) = 1) =>
                      rret.result = (IF hit THEN rules[1].action ELSE default_action)

C33_Witness ==
    /\ Len(rules) = 3
    /\ { rules[i].rule_type.prefix_len : i \in 1 .. 3 } = {0, 13, 32}
    /\ rules[1].rule_type.prefix_len = 13
    /\ rret.op = "evaluate"
    /\ rret.input = Conn(None, Some(IpV4(10, 7, 255, 255)), 80, 0)
    /\ rret.result = rules[1].action

\* C34: after any sequence of load_from_config calls every IP-CIDR rule of
\* the list has a prefix length in 0 .. 32.
C34_PrefixInRange ==
    \A i \in 1 .. Len(rules) :
        IsCidrRule(i) => rules[i].rule_type.prefix_len \in 0 .. 32

(***************************************************************************)
(* Claims about the proxy manager.                                         *)
(***************************************************************************)
\* The connection a routing decision was made for.
InputOf(decision) ==
    CHOOSE x \in RouteInputs :
        x.domain = decision.domain /\ x.ip = decision.dst_ip /\ x.dst_port = decision.dst_port

\* C11: evaluate_route returns Direct for every input whenever the enabled
\* flag is false or no ProxyConfig is set, whatever rules are loaded; when
\* the flag is true and a config is set it returns exactly what the rule
\* engine returns for the same input.
C11_DisabledIsDirect ==
    [][ \A x \in RouteInputs :
            EvaluateRoute(x) =>
                pret'.decision.action =
                    IF ~enabled \/ ~config.some THEN "Direct"
                    ELSE RuleEvaluate(rules, default_action,
                                      x.domain, x.ip, x.dst_port, x.src_port) ]_vars

\* evaluate_route has answered Direct with the flag set and no config,
\* although the rules send the connection elsewhere.
C11_Witness ==
    /\ pret.op = "evaluate_route"
    /\ enabled
    /\ ~config.some
    /\ pret.decision.action = "Direct"
    /\ LET x == InputOf(pret.decision)
       IN  RuleEvaluate(rules, default_action, x.domain, x.ip, x.dst_port, x.src_port)
               # "Direct"

\* The counter that belongs to an action.
CounterOf(action) ==
    CASE action = "Direct" -> "direct_connections"
      [] action = "Proxy" -> "proxied_connections"
      [] action = "Reject" -> "rejected_connections"

\* C12: every evaluate_route call increments by exactly 1 the counter of the
\* returned action and leaves the other counters unchanged, so that direct +
\* proxied + rejected equals the number of evaluate_route calls since the
\* last reset_stats.
C12_OneCounterPerCall ==
    [][ /\ \A x \in RouteInputs :
              EvaluateRoute(x) =>
                  stats' = [stats EXCEPT ![CounterOf(pret'.decision.action)] = @ + 1]
        /\ stats'.direct_connections + stats'.proxied_connections
               + stats'.rejected_connections = route_calls' ]_vars

\* Two calls since the last reset, one proxied and one rejected.
C12_Witness ==
    /\ pret.op = "evaluate_route"
    /\ route_calls = 2
    /\ stats.proxied_connections = 1
    /\ stats.rejected_connections = 1
    /\ stats.direct_connections = 0

\* The action evaluate_route gives for a connection.
RouteAction(pm, x) == ProxyEvaluateRoute(pm, x).decision.action

\* C13 as stated: enable and disable change only the enabled flag, and
\* after disable followed by enable evaluate_route gives the same action for
\* every input as before the disable.
C13_ReenableRestores ==
    [][ /\ (Enable \/ Disable) => UNCHANGED <<rules, default_action, config, stats>>
        /\ Disable =>
              \A x \in RouteInputs :
                  RouteAction(ProxyEnable(ProxyMgr'), x) = RouteAction(ProxyMgr, x) ]_vars

\* C13, amended: enable and disable change only the enabled flag, and when
\* the flag was set before the disable, evaluate_route after disable followed
\* by enable gives the same action for every input as before the disable.
C13_ReenableRestoresEnabled ==
    [][ /\ (Enable \/ Disable) => UNCHANGED <<rules, default_action, config, stats>>
        /\ (Disable /\ enabled) =>
              \A x \in RouteInputs :
                  RouteAction(ProxyEnable(ProxyMgr'), x) = RouteAction(ProxyMgr, x) ]_vars

\* disable has been called on a manager with a config, rules, and counters
\* that show it was routing through the rules.
C13_Witness ==
    /\ pret.op = "disable"
    /\ ~enabled
    /\ config.some
    /\ Len(rules) > 0
    /\ stats.proxied_connections > 0
    /\ stats.proxy_bytes_sent > 0

(***************************************************************************)
(* Claims about the SOCKS5 client.                                         *)
(***************************************************************************)
\* The state of the protocol at which connect stands.
S5State ==
    CASE s5_pc \in {"Idle", "Connect", "GreetingWrite"} -> "Init"
      [] s5_pc = "SelectionRead" -> "GreetingSent"
      [] s5_pc = "AuthWrite" -> "MethodSelected"
      [] s5_pc = "AuthRead" -> "AuthSent"
      [] s5_pc = "RequestWrite" ->
            IF s5_io[Len(s5_io)].what = "auth" THEN "AuthAcked" ELSE "MethodSelected"
      [] s5_pc = "ReplyHeaderRead" -> "RequestSent"
      [] s5_pc \in {"BoundLenRead", "BoundAddrRead"} -> "ReplyReceived"
      [] s5_pc = "Done" -> IF s5_result.ok THEN "Connected" ELSE "Failed"
      [] s5_pc = "Cancelled" -> "Cancelled"

\* The steps the order allows.
S5Order ==
    { <<"Init", "Init">>, <<"Init", "GreetingSent">>, <<"GreetingSent", "MethodSelected">>,
      <<"MethodSelected", "AuthSent">>, <<"AuthSent", "AuthAcked">>,
      <<"MethodSelected", "RequestSent">>, <<"AuthAcked", "RequestSent">>,
      <<"RequestSent", "ReplyReceived">>, <<"ReplyReceived", "ReplyReceived">>,
      <<"ReplyReceived", "Connected">> }
    \cup { <<a, "Failed">> : a \in {"Init", "GreetingSent", "MethodSelected", "AuthSent",
                                    "AuthAcked", "RequestSent", "ReplyReceived"} }

\* The positions of the log that hold a completed read of `what`.
ReadsOf(io, what) ==
    { i \in 1 .. Len(io) : io[i].dir = "read" /\ io[i].what = what /\ io[i].ok }

\* Every write of the CONNECT request comes after a selection of method 0x00
\* or after a selection of 0x02 and an acknowledgement with status 0.
RequestAfterSelection(io) ==
    \A i \in 1 .. Len(io) :
        (io[i].dir = "write" /\ io[i].what = "request") =>
            \E j \in ReadsOf(io, "selection") :
                /\ j < i
                /\ io[j].bytes[1] = 5
                /\ \/ io[j].bytes[2] = 0
                   \/ /\ io[j].bytes[2] = 2
                      /\ \E k \in ReadsOf(io, "auth") : j < k /\ k < i /\ io[k].bytes[2] = 0

\* The log ends with a good reply and its bound address, read to the end.
ReplyFullyRead(io) ==
    \E r \in ReadsOf(io, "reply") :
        /\ io[r].bytes[1] = 5
        /\ io[r].bytes[2] = 0
        /\ io[r].bytes[4] \in {1, 3, 4}
        /\ Len(io) \in ReadsOf(io, "bound_addr")
        /\ io[Len(io)].bytes[1] =
              CASE io[r].bytes[4] = 1 -> 6
                [] io[r].bytes[4] = 4 -> 18
                [] io[r].bytes[4] = 3 -> io[Len(io) - 1].bytes[1] + 2

\* C14: connect follows the order Init, GreetingSent, MethodSelected,
\* (AuthSent, AuthAcked)?, RequestSent, ReplyReceived, Connected or Failed
\* (or is dropped by the caller on the way); the CONNECT request is never
\* written before the server selected method 0x00, or selected 0x02 and
\* acknowledged the credentials with status 0; the stream is returned only
\* after a reply with version 5, REP 0x00 and a known ATYP whose bound
\* address was fully read.
C14_HandshakeOrder ==
    [][ /\ \/ <<S5State, S5State'>> \in S5Order
           \/ Cancel
        /\ RequestAfterSelection(s5_io')
        /\ (stream' = "Returned" \/ S5State' = "Connected") =>
               /\ stream' = "Returned"
               /\ s5_result' = Ok("stream")
               /\ ReplyFullyRead(s5_io') ]_vars

\* connect has returned the stream after a username/password exchange and a
\* reply that carried a domain name as bound address.
C14_Witness ==
    /\ stream = "Returned"
    /\ s5_result.ok
    /\ ReadsOf(s5_io, "auth") # {}
    /\ ReadsOf(s5_io, "bound_len") # {}

\* The methods a greeting message offers.
MethodsOffered(greeting) == { greeting[2 + i] : i \in 1 .. greeting[2] }

\* Both credentials are configured.
BothCredentials(c) == c.username.some /\ c.password.some

\* C15: the greeting offers methods {0x00, 0x02} exactly when both a
\* username and a password are configured and {0x00} otherwise; with only
\* one of the two, create_socks5_client, get_credentials and the greeting all
\* act as without authentication.
C15_MixedCredentialsNoAuth ==
    /\ \A i \in 1 .. Len(s5_io) :
          s5_io[i].what = "greeting" =>
              /\ s5_io[i].bytes[1] = 5
              /\ Len(s5_io[i].bytes) = 2 + s5_io[i].bytes[2]
              /\ MethodsOffered(s5_io[i].bytes) =
                    IF BothCredentials(s5_config) THEN {0, 2} ELSE {0}
    /\ (s5_config # None /\ client.ok) =>
          IF BothCredentials(s5_config)
          THEN /\ client.v.username = s5_config.username
               /\ client.v.password = s5_config.password
          ELSE client.v.username = None /\ client.v.password = None
    /\ s5_config # None =>
          ProxyGetCredentials(ProxyWithConfig(s5_config)) =
              IF BothCredentials(s5_config)
              THEN Some(<<s5_config.username.v, s5_config.password.v>>)
              ELSE None

\* A greeting that offers {0x00} only has gone out for a configuration with
\* a username and no password.
C15_Witness ==
    /\ s5_config # None
    /\ s5_config.username.some
    /\ ~s5_config.password.some
    /\ Len(s5_io) > 0
    /\ s5_io[1].what = "greeting"
    /\ s5_io[1].ok
    /\ MethodsOffered(s5_io[1].bytes) = {0}

\* The selection that was just read.
Selected == s5_io'[Len(s5_io')].bytes

\* What the claim says of a selection apart from method 0x02: failure on a
\* wrong version, on 0xFF and on every unknown method, no authentication on
\* 0x00, and nothing written once connect has returned.
SelectionRules ==
    /\ (SelectionRead /\ s5_io'[Len(s5_io')].ok) =>
          /\ (Selected[1] # 5 \/ Selected[2] \notin {0, 2}) =>
                /\ s5_pc' = "Done"
                /\ ~s5_result'.ok
                /\ s5_result'.err.tag = "Socks5Error"
          /\ (Selected[1] = 5 /\ Selected[2] = 0) => s5_pc' = "RequestWrite"
    /\ s5_pc = "Done" => s5_io' = s5_io

\* C16 as stated: ... and the client performs the username/password
\* exchange when the method is 0x02.
C16_SelectionDecides ==
    [][ /\ SelectionRules
        /\ (SelectionRead /\ s5_io'[Len(s5_io')].ok /\ Selected[1] = 5 /\ Selected[2] = 2) =>
              s5_pc' = "AuthWrite" ]_vars

\* C16, amended: on the 2-byte method selection the client fails when the
\* version is not 0x05, the method is 0xFF or any other unknown value; it
\* skips authentication on 0x00; on 0x02 it performs the username/password
\* exchange if both credentials are configured and fails without writing
\* otherwise; after a failed selection nothing more is written.
C16_SelectionDecidesWithCredentials ==
    [][ /\ SelectionRules
        /\ (SelectionRead /\ s5_io'[Len(s5_io')].ok /\ Selected[1] = 5 /\ Selected[2] = 2) =>
              IF BothCredentials(client.v)
              THEN s5_pc' = "AuthWrite"
              ELSE /\ s5_pc' = "Done"
                   /\ ~s5_result'.ok
                   /\ s5_result'.err.tag = "Socks5Error" ]_vars

\* The server selected 0x02 and the credentials have been written.
C16_Witness ==
    /\ s5_pc = "AuthRead"
    /\ ReadsOf(s5_io, "selection") # {}
    /\ s5_io[Len(s5_io)].what = "auth"
    /\ s5_io[Len(s5_io)].dir = "write"

\* C17: on any I/O error or protocol violation at any step of connect the
\* stream to the proxy is closed and the caller receives a Socks5Error
\* carrying the reason.
C17_ErrorsAreSocks5Errors ==
    (s5_pc = "Done" /\ ~s5_result.ok) =>
        /\ stream \in {"None", "Closed"}
        /\ s5_result.err.tag = "Socks5Error"

\* The error message the fixed table names for a REP value.
NamedReplyError(rep) ==
    CASE rep = 1 -> "General SOCKS server failure"
      [] rep = 2 -> "Connection not allowed by ruleset"
      [] rep = 3 -> "Network unreachable"
      [] rep = 4 -> "Host unreachable"
      [] rep = 5 -> "Connection refused"
      [] rep = 6 -> "TTL expired"
      [] rep = 7 -> "Command not supported"
      [] rep = 8 -> "Address type not supported"
      [] OTHER -> "General SOCKS server failure"

\* C32: a SOCKS5 reply with REP = 0x00 is a success and every other REP
\* value makes connect fail with the named error of the fixed table (01
\* GeneralFailure ... 08 AddressTypeNotSupported), values outside 00..08
\* mapping to GeneralFailure; on a non-zero REP the bound address is not read
\* and the stream is not returned.  (Of a reply that carries version 5; with
\* REP = 0x00 connect goes on to the bound address and fails at the reply
\* header only for an address type it does not know.)
C32_ReplyCodes ==
    \A i \in 1 .. Len(s5_io) :
        (s5_io[i].what = "reply" /\ s5_io[i].ok /\ s5_io[i].bytes[1] = 5) =>
            LET rep == s5_io[i].bytes[2]
                atyp == s5_io[i].bytes[4]
            IN  IF rep # 0
                THEN /\ i = Len(s5_io)
                     /\ s5_pc = "Done"
                     /\ s5_result = Err(Socks5Error(NamedReplyError(rep)))
                     /\ stream # "Returned"
                ELSE (i = Len(s5_io) /\ s5_pc = "Done") =>
                        /\ atyp \notin {1, 3, 4}
                        /\ s5_result = Err(Socks5Error("Unknown address type in reply"))

\* connect has failed on a reply whose REP value lies outside the table.
C32_Witness ==
    /\ s5_pc = "Done"
    /\ s5_io # <<>>
    /\ s5_io[Len(s5_io)].what = "reply"
    /\ s5_io[Len(s5_io)].ok
    /\ s5_io[Len(s5_io)].bytes = <<5, 255, 0, 1>>
    /\ s5_result = Err(Socks5Error("General SOCKS server failure"))

\* C35: the encoding of TargetAddr::Domain(d, port) is the byte 0x03, one
\* length byte, the bytes of d and the port in big-endian order, and the
\* length byte equals the number of bytes of d, for every domain d.
C35_DomainLengthByte ==
    (target # None /\ target.tag = "Domain") =>
        \A i \in 1 .. Len(s5_io) :
            s5_io[i].what = "request" =>
                /\ s5_io[i].bytes = <<5, 1, 0>> \o Encode(target)
                /\ Encode(target) = <<3, Len(target.domain), target.domain,
                                      target.port \div 256, target.port % 256>>

(***************************************************************************)
(* Claims about the connection manager.                                    *)
(***************************************************************************)
\* The call found no entry for the packet's flow and has made one in SynSent.
NewlyCreated(p) ==
    /\ ToNatKey(p).some
    /\ ToNatKey(p).v \notin DOMAIN entries
    /\ ToNatKey(p).v \in DOMAIN entries'
    /\ entries'[ToNatKey(p).v].state = "SynSent"

\* C20: process_packet increments total_connections by exactly 1 if and
\* only if the packet is a TCP SYN (SYN set, ACK clear) and this call newly
\* created the NAT entry in SynSent; for every other packet, including a
\* repeated SYN for a flow that already has an entry, total_connections is
\* unchanged.
C20_CountsNewSynOnly ==
    [][ \A p \in Packets :
          ProcessPacket(p) =>
              total_connections' =
                  IF IsTcpSyn(p) /\ NewlyCreated(p)
                  THEN total_connections + 1
                  ELSE total_connections ]_vars

\* C21: after any sequence of register_socket, remove_connection and
\* cleanup, the two maps of the ConnectionManager are exact inverses of each
\* other: socket_handles[k] = h if and only if handle_to_key[h] = k.
C21_MapsAreInverses ==
    \A k \in Keys, h \in SocketHandles :
        (k \in DOMAIN socket_handles /\ socket_handles[k] = h)
            <=> (h \in DOMAIN handle_to_key /\ handle_to_key[h] = k)

\* C30: sync_socket_states maps, for each tracked handle, the stack's TCP
\* state to the NAT state: Established -> Established; FinWait1, FinWait2,
\* Closing, TimeWait -> FinWait; Closed, CloseWait, LastAck -> Closed; every
\* other stack state leaves the NAT entry unchanged, and an entry whose NAT
\* state already equals the mapped state is left untouched (including
\* last_seen).
C30_SyncMapsStates ==
    [][\A sockets \in [SocketHandles -> TcpStates] :
          (cret'.op = "sync_socket_states" /\ SyncSocketStates(sockets)) =>
              \A k \in DOMAIN socket_handles \cap DOMAIN entries :
                  LET s == sockets[socket_handles[k]]
                      mapped ==
                          IF s = "Established" THEN "Established"
                          ELSE IF s \in {"FinWait1", "FinWait2", "Closing", "TimeWait"}
                               THEN "FinWait"
                          ELSE IF s \in {"Closed", "CloseWait", "LastAck"}
                               THEN "Closed"
                          ELSE "none"
                  IN  IF mapped = "none" \/ entries[k].state = mapped
                      THEN entries'[k] = entries[k]
                      ELSE entries'[k].state = mapped]_vars

\* sync_socket_states has just run over a tracked entry that an earlier run
\* had brought to FinWait, and has left its last_seen in the past.
C30_Witness ==
    /\ cret.op = "sync_socket_states"
    /\ \E k \in DOMAIN socket_handles \cap DOMAIN entries :
          entries[k].state = "FinWait" /\ entries[k].last_seen < now

\* C25: with the core initialized, process_inbound_packet is a
\* pass-through: for every datagram that decodes successfully as an IP
\* packet (TCP, UDP or another protocol such as ICMP) it returns Ok with
\* exactly the bytes it was given, and process_outbound_packet returns its
\* input unchanged for every input.
C25_PassThrough ==
    [][ core.some =>
          \A d \in Datagrams :
              /\ ( /\ fret'.op = "process_inbound_packet"
                   /\ FfiProcessInboundPacket(d)
                   /\ d.parsed.ok ) => fret'.result = Ok(d.bytes)
              /\ ( /\ fret'.op = "process_outbound_packet"
                   /\ FfiProcessOutboundPacket(d) ) => fret'.result = Ok(d.bytes) ]_vars

\* C38: whenever the connection manager removes a connection, through
\* remove_connection or through cleanup (closed or timed-out entries), its
\* socket handle is unregistered in both directions: a key that the step
\* takes out of the NAT table has no socket handle afterwards, and the
\* handle it had is no longer in the reverse map.
C38_RemovalUnregisters ==
    [][ (cret'.op \in {"cleanup", "remove_connection"}
         /\ (Cleanup \/ \E key \in Keys : RemoveConnection(key))) =>
            \A k \in DOMAIN entries \ DOMAIN entries' :
                /\ k \notin DOMAIN socket_handles'
                /\ k \in DOMAIN socket_handles =>
                      socket_handles[k] \notin DOMAIN handle_to_key' ]_vars

(***************************************************************************)
(* Claims about the virtual TUN device.                                    *)
(***************************************************************************)
\* The packets of producer `t` in `queue`, in the order of the queue.
ByProducer(queue, t) ==
    LET IsFrom(x) == x[1] = t
    IN  SelectSeq(queue, IsFrom)

\* `queue` followed by one more element is `longer`.
ExtendsByOne(queue, longer) ==
    /\ Len(longer) = Len(queue) + 1
    /\ SubSeq(longer, 1, Len(queue)) = queue

\* C22: each packet queue is FIFO and loses nothing under concurrent
\* producers: the packets received so far followed by those still queued
\* hold every packet injected by each producer exactly once and in the order
\* that producer injected them; an enqueue appends, receive takes the oldest
\* packet, and take_packets returns all pending tx packets in enqueue order
\* and leaves the tx queue empty.
C22_FifoNothingLost ==
    [][ /\ \A t \in Producers :
              ByProducer(received' \o rx_queue', t) = [n \in 1..produced'[t] |-> Packet(t, n)]
        /\ (\E t \in Producers : InjectPush(t)) =>
              /\ ExtendsByOne(rx_queue, rx_queue')
              /\ received' = received
        /\ (Receive /\ rx_queue # <<>>) =>
              /\ dret'.token = Some(Head(rx_queue))
              /\ received' = Append(received, Head(rx_queue))
              /\ rx_queue' = Tail(rx_queue)
        /\ (\E len \in TxLens, b \in TxBytes : TxConsume(len, b)) =>
              ExtendsByOne(tx_queue, tx_queue')
        /\ TakePackets =>
              /\ dret'.packets = tx_queue
              /\ tx_queue' = <<>> ]_vars

\* Both producers have injected all their packets, interleaved; receive has
\* handed out three of them, one is still queued, and take_packets has
\* returned two buffers.
C22_Witness ==
    /\ \A t \in Producers : produced[t] = MaxInjects
    /\ Len(received) = 3
    /\ received[1][1] # received[2][1]
    /\ Len(rx_queue) = 1
    /\ dret.op = "take_packets"
    /\ Len(dret.packets) = 2
    /\ dret.packets[1] # dret.packets[2]

\* C23: the rx and tx packet queues are bounded: some capacity below the
\* number of inject_packet calls, and of transmit operations, performed
\* without the consumer draining is never exceeded by the length of a queue.
C23_QueuesBounded ==
    /\ Len(rx_queue) < Cardinality(Producers) * MaxInjects
    /\ Len(tx_queue) < MaxInjects

(***************************************************************************)
(* Claims about the embedding layer.                                       *)
(***************************************************************************)
\* The held instance: its configuration, rules, statistics and NAT table.
HeldInstance ==
    <<core, config, enabled, rules, default_action, stats,
      entries, port_to_key, next_port, socket_handles, handle_to_key,
      total_bytes_sent, total_bytes_received, total_connections>>

\* This step is the return of a call of one of the operations `ops`.
Returns(ops) ==
    /\ ffi_calls' = ffi_calls + 1
    /\ inflight' = inflight
    /\ fret'.op \in ops

\* This step is the return of an init_core call.
InitReturns ==
    \E c \in ProxyConfigs : inflight'[c] = inflight[c] - 1

\* C18: the embedding layer holds at most one engine instance: of any
\* number of init calls, sequential or concurrent, exactly one succeeds;
\* every other init returns AlreadyInitialized and leaves the held instance
\* (config, rules, statistics, NAT table) unchanged, also after shutdown()
\* has been called any number of times.
C18_SingleInstance ==
    [][ /\ inits_ok' <= 1
        /\ (inits_ok' + inits_failed' > 0) => (inits_ok' = 1)
        /\ core'.some <=> (inits_ok' = 1)
        /\ InitReturns =>
              /\ fret'.op = "init_core"
              /\ IF core.some
                 THEN /\ fret'.result = AlreadyInitialized
                      /\ inits_failed' = inits_failed + 1
                      /\ UNCHANGED HeldInstance
                 ELSE /\ fret'.result = Ok("unit")
                      /\ inits_ok' = 1
        /\ Returns({"shutdown_core"}) => UNCHANGED HeldInstance ]_vars

\* After a first init, rules loaded into the instance and a shutdown, a
\* second init has returned AlreadyInitialized.
C18_Witness ==
    /\ shutdown_logged
    /\ inits_ok = 1
    /\ inits_failed = 1
    /\ fret.op = "init_core"
    /\ fret.result = AlreadyInitialized
    /\ rules # <<>>

\* The operations of the embedding API that return a result.
GuardedOps ==
    {"process_inbound_packet", "process_outbound_packet", "load_rules", "clear_rules",
     "rule_count", "evaluate_route", "get_stats", "add_bytes_sent", "add_bytes_received",
     "enable_proxy", "disable_proxy", "is_proxy_enabled"}

\* C19: while no init has succeeded, is_initialized() is false and every
\* other embedding operation that returns a result fails with
\* NotInitialized without creating an instance.
C19_NotInitialized ==
    [][ (inits_ok = 0) =>
          /\ Returns({"is_initialized"}) => (fret'.result = Ok(FALSE))
          /\ Returns(GuardedOps) =>
                /\ fret'.result = NotInitialized
                /\ core' = None
                /\ UNCHANGED HeldInstance ]_vars

\* With an init_core call under way that has not yet set the instance,
\* evaluate_route has returned NotInitialized.
C19_Witness ==
    /\ inits_ok = 0
    /\ \E c \in ProxyConfigs : inflight[c] > 0
    /\ fret.op = "evaluate_route"
    /\ fret.result = NotInitialized

\* C39: after a successful add_bytes_sent(n) of the embedding layer the
\* bytes_sent of get_stats() is larger by n than before the call, and
\* likewise bytes_received after add_bytes_received(n).
C39_AddedBytesInStats ==
    [][ \A bytes \in ByteCounts :
           /\ (fret'.op = "add_bytes_sent" /\ fret'.result = Ok("unit")
               /\ FfiAddBytesSent(bytes)) =>
                  CoreStats(ConnMgr)'.bytes_sent = CoreStats(ConnMgr).bytes_sent + bytes
           /\ (fret'.op = "add_bytes_received" /\ fret'.result = Ok("unit")
               /\ FfiAddBytesReceived(bytes)) =>
                  CoreStats(ConnMgr)'.bytes_received
                      = CoreStats(ConnMgr).bytes_received + bytes ]_vars

(***************************************************************************)
(* Claims about the packet parser.                                         *)
(***************************************************************************)
\* The transport region of an IPv4 or IPv6 buffer that has a whole IP header:
\* its protocol number and its length.
RegionOf(data) ==
    LET version == data[1] \div 16
        offset == IF version = 4 THEN (data[1] % 16) * 4 ELSE IPV6_HEADER_LEN
    IN  [proto |-> IF version = 4 THEN data[10] ELSE data[7],
         len |-> IF Len(data) > offset THEN Len(data) - offset ELSE 0,
         doff |-> IF Len(data) > offset + 12 THEN (data[offset + 13] \div 16) * 4 ELSE 0]

\* The IP header of the buffer is one that parse has to reject.
BadIpHeader(data) ==
    \/ data = <<>>
    \/ data[1] \div 16 \notin {4, 6}
    \/ data[1] \div 16 = 4 /\ Len(data) < 20
    \/ data[1] \div 16 = 4 /\ (data[1] % 16) * 4 < 20
    \/ data[1] \div 16 = 4 /\ (data[1] % 16) * 4 > Len(data)
    \/ data[1] \div 16 = 6 /\ Len(data) < 40

\* The transport header of a buffer with a good IP header is one that parse
\* has to reject.
BadTransportHeader(data) ==
    \/ RegionOf(data).proto = 6 /\ RegionOf(data).len < 20
    \/ RegionOf(data).proto = 6 /\ RegionOf(data).doff < 20
    \/ RegionOf(data).proto = 6 /\ RegionOf(data).doff > RegionOf(data).len
    \/ RegionOf(data).proto = 17 /\ RegionOf(data).len < 8

\* C26: ParsedPacket::parse never panics and never reads outside the
\* buffer: for every byte sequence it returns either a ParsedPacket or
\* InvalidPacket, and it rejects an empty buffer, a version other than 4 or
\* 6, IPv4 with fewer than 20 bytes or an IHL below 20 or above the buffer
\* length, IPv6 with fewer than 40 bytes, TCP with a transport region shorter
\* than 20 bytes or a data offset below 20 or above the region length, and
\* UDP with a region shorter than 8 bytes.
C26_ParseNeverPanics ==
    pkt_result.some =>
        /\ pkt_result.v # Panic
        /\ pkt_result.v.ok \/ pkt_result.v.err.tag = "InvalidPacket"
        /\ (BadIpHeader(pkt_data) \/ BadTransportHeader(pkt_data)) => ~pkt_result.v.ok

\* An IPv4 buffer with a whole TCP header whose data offset (24) reaches past
\* the end of the 23-byte transport region has been rejected.
C26_Witness ==
    /\ pkt_result = Some(InvalidPacket("Invalid TCP data offset"))
    /\ Len(pkt_data) = 43
    /\ pkt_data[1] = 69
    /\ RegionOf(pkt_data).doff = 24

\* Bit i of a byte, by division.
HasBit(byte, i) == (byte \div Pow2(i)) % 2 = 1

\* C36: for every flags byte f in 0 .. 255, to_byte(from_byte(f)) = f, and
\* on from_byte(f) is_syn is SYN and not ACK, is_syn_ack is SYN and ACK,
\* is_fin is FIN and is_rst is RST.
C36_FlagsRoundTrip ==
    pkt_result.some =>
        LET f == pkt_data[1]
            r == pkt_result.v
        IN  /\ r.op = "to_byte" => r.byte = f
            /\ r.op = "classify" =>
                  /\ r.is_syn = (HasBit(f, 1) /\ ~HasBit(f, 4))
                  /\ r.is_syn_ack = (HasBit(f, 1) /\ HasBit(f, 4))
                  /\ r.is_fin = HasBit(f, 0)
                  /\ r.is_rst = HasBit(f, 2)

\* The byte with all eight flags set has gone through from_byte and to_byte.
C36_Witness ==
    /\ pkt_data = <<255>>
    /\ pkt_result.some
    /\ pkt_result.v.op = "to_byte"
    /\ pkt_result.v.byte = 255
    /\ IsSynAck(pkt_result.v.flags)

(***************************************************************************)
(* Claims about concurrent calls of the embedding layer.                   *)
(***************************************************************************)
\* The connection manager after the process_packet calls `calls`, made one
\* after the other on the manager `cm`.
RECURSIVE Replay(_, _)
Replay(cm, calls) ==
    IF calls = <<>> THEN cm
    ELSE Replay(ConnProcessPacket(cm, Head(calls).d.parsed.v, now).cm, Tail(calls))

\* The local ports that the reverse index gives to `key`.
PortsOf(key) == { port \in DOMAIN port_to_key : port_to_key[port] = key }

\* C24: operations on one flow key are linearizable under the instance
\* lock: once the concurrent process_inbound_packet calls have returned, the
\* NAT table, the port cursor and total_connections are those of the calls
\* made one after the other in the order they took the mutex, and every flow
\* of these calls has exactly one NAT entry with one local port.
C24_Linearizable ==
    (core.some /\ InboundPending = {}) =>
        /\ \E cm \in {Replay(ConnNew, linearized)} :
              /\ entries = cm.nat.entries
              /\ port_to_key = cm.nat.port_to_key
              /\ next_port = cm.nat.next_port
              /\ total_connections = cm.total_connections
        /\ \A i \in 1..Len(linearized) :
              \E key \in {ToNatKey(linearized[i].d.parsed.v).v} :
                  /\ key \in DOMAIN entries
                  /\ PortsOf(key) = {entries[key].local_port}

\* Two calls with the same TCP SYN of an unseen flow have returned; the
\* second waited for the mutex while the first was inside get_or_create.
C24_Witness ==
    /\ InboundPending = {}
    /\ Len(linearized) = 2
    /\ linearized[1].d = linearized[2].d
    /\ IsTcpSyn(linearized[1].d.parsed.v)
    /\ linearized[1].waiting # {}
    /\ Cardinality(DOMAIN entries) = 1
    /\ fret.op = "process_inbound_packet"

====
